---- MODULE Spec2Model ----
(***************************************************************************)
(* Model of the concurrent extraction pipeline of tiktok_hashtag_crawler:  *)
(* src/video_metadata_extractor.py (TikTokVideoMetadataExtractor,          *)
(* _process_chunk_in_thread) and the chunked-thread run of src/main.py.    *)
(*                                                                         *)
(* Thread 0 is the coordinator (the caller of extract_from_links, or main  *)
(* in the chunked mode).  Threads 1..n are the workers: in the chunked     *)
(* mode one thread per chunk, in the threaded mode one task of the         *)
(* ThreadPoolExecutor per URL (a task runs on one pool thread from start   *)
(* to end, at most num_threads tasks run at a time).                       *)
(*                                                                         *)
(* The browser is the environment: a session may die before any liveness   *)
(* check, a navigation, a script evaluation, a page-source read, a session *)
(* creation or a file write may fail.  Each such incident is counted in    *)
(* faults, which is bounded by the run's budget.                           *)
(***************************************************************************)
EXTENDS Integers, Sequences, FiniteSets, TLC

\* ------------------------------------------------------------------ bounds
MaxUrls == 2
MaxThreads == 2
MaxFaults == 2

\* ------------------------------------------------------- program constants
CreateMaxRetries == 3
ExtractMaxRetries == 2
CheckpointInterval == 10

\* ------------------------------------------------------------------ values
None == 0 - 1
NoError == "None"
NoHandle == 0
Main == 0

Modes == {"threaded", "sequential", "chunked"}
\* A path is the sequence of its pieces, so that str.replace can be computed
\* on it; NoFile stands for output_file = None.
NoFile == <<>>
OutFile == <<"out", ".json">>
OutputFiles == {NoFile, OutFile, <<"out">>}

Min(a, b) == IF a < b THEN a ELSE b

\* ---------------------------------------------------------------- messages
\* Exception texts, and the words of the keyword lists each one contains.
MsgSession == "invalid session id"
MsgUnknown == "unknown error"
MsgNotReachable == "chrome not reachable"
MsgMissing == "missing runtime"
MsgDiedAfterLoad == "Driver died after page load"
MsgDiedDuringLoad == "Driver died during page load"
MsgCreationFailed == "Driver creation failed"
MsgRecreationFailed == "Driver recreation failed"
MsgRetryFailed == "Retry failed"
MsgSaveFailed == "save failed"

Keywords(msg) ==
    CASE msg = MsgSession -> {"session"}
      [] msg = MsgNotReachable -> {"chrome not reachable", "not reachable"}
      [] OTHER -> {}

LoadRecoverableKeywords ==
    {"target window already closed", "no such window", "web view not found",
     "session", "connection", "service"}

CreateRecoverableKeywords ==
    {"no such file", "chromedriver", "can not connect", "cannot connect",
     "session not created", "connection refused", "service", "chromeoptions",
     "reuse", "127.0.0.1", "chrome not reachable", "not reachable",
     "unable to connect"}

IsRecoverableAlways(msg) == TRUE
IsRecoverableLoad(msg) == Keywords(msg) \cap LoadRecoverableKeywords # {}
IsRecoverableCreate(msg) == Keywords(msg) \cap CreateRecoverableKeywords # {}

\* ----------------------------------------------------------------- records
EmptyMetadata(url) ==
    [url |-> url, description |-> None, like_count |-> None,
     comment_count |-> None, share_count |-> None, view_count |-> None,
     archive_count |-> None, error |-> NoError]

\* The Record returned on an error path: every field null but url and error
\* (lines 230-243, 344-360, 860-872, 977-989).
ErrorRecord(url, msg) == [EmptyMetadata(url) EXCEPT !.error = msg]

\* What the page of a URL holds: every tier that runs finds these values.
PageDescription(url) == url + 1000
PageCount(url, field) ==
    CASE field = "like_count" -> url + 1
      [] field = "comment_count" -> url + 2
      [] field = "share_count" -> url + 3
      [] field = "view_count" -> url + 4
      [] field = "archive_count" -> url + 5

CountFields ==
    {"like_count", "comment_count", "share_count", "view_count", "archive_count"}


NoRecord == ErrorRecord(None, "unset")

\* ------------------------------------------------------------------- state
VARIABLES
    mode,            \* which pool mode runs
    video_links,     \* the input URL list
    num_threads,     \* args.threads / self.num_threads
    output_file,     \* the output path (NoFile: not given)
    pc,              \* pc[t]: where thread t stands
    loc,             \* loc[t]: the local variables of thread t
    handles,         \* every Session Handle created so far
    selfDriver,      \* selfDriver[e]: self.driver of extractor instance e
    creationLock,    \* creationLock[e]: holder of e._driver_creation_lock
    all_metadata,    \* the shared result list / slot array
    future,          \* future[i]: result of pool task i (threaded mode)
    processed_count, \* self._processed_count
    completed_count, \* self._completed_count
    disk,            \* disk[path]: the document stored at path
    partial_writes,  \* number of save_results(partial=True) calls started
    extracted,       \* extracted[t]: URLs thread t has called extract_metadata on
    fin,             \* the local variables of finalize_and_retry_errors
    faults,          \* environment incidents so far
    budget,          \* the incidents the environment may cause in this run
    broken,          \* the URLs whose page load fails every time
    sv,              \* the local variables of a save_results call in steps
    torn,            \* the paths whose file is partly written
    part,            \* the local variables of the chunking loop
    tiers,           \* the page and the metadata of a field extraction
    tags,            \* the texts and the hashtags of one extraction
    parse,           \* the string and the result of one parse_count call
    lk,              \* the threads, the locks and the saves of one pool run
    frame            \* the local variables of one call taken step by step

cfg == <<mode, video_links, num_threads, output_file, budget, broken>>
units == <<sv, torn, part, tiers, tags, parse, lk, frame>>
vars == <<mode, video_links, num_threads, output_file, pc, loc,
          handles, selfDriver, creationLock, all_metadata, future,
          processed_count, completed_count, disk, partial_writes, extracted,
          fin, faults, budget, broken, sv, torn, part, tiers, tags, parse,
          lk, frame>>
pool_state == <<all_metadata, future, processed_count, completed_count, disk,
                partial_writes, fin>>
pool_minus_disk == <<all_metadata, future, processed_count, completed_count,
                     partial_writes, fin>>

\* ------------------------------------------------------------ partitioning
\* main: chunk_size, remainder and the running start_idx of the chunk loop.
\* ChunkSizeEven is a split that leaves the remainder out.
ChunkSizeEven(n, k, i) == n \div k
ChunkSize(n, k, i) == (n \div k) + (IF i < n % k THEN 1 ELSE 0)

RECURSIVE ChunkStart(_, _, _)
ChunkStart(n, k, i) ==
    IF i = 0 THEN 0 ELSE ChunkStart(n, k, i - 1) + ChunkSize(n, k, i - 1)

\* chunks[thread_id - 1]
Chunk(links, k, thread_id) ==
    SubSeq(links, ChunkStart(Len(links), k, thread_id - 1) + 1,
           ChunkStart(Len(links), k, thread_id - 1)
               + ChunkSize(Len(links), k, thread_id - 1))

\* extract_from_links takes the pool branch only for more than one link.
UsesPool == mode = "threaded" /\ Len(video_links) > 1

NumWorkers(m, n, k) ==
    CASE m = "chunked" -> k
      [] m = "threaded" /\ n > 1 -> n
      [] OTHER -> 0

Workers == DOMAIN pc \ {Main}

\* The URLs thread t works through.
Assigned(t) ==
    CASE t = Main -> video_links
      [] mode = "chunked" -> Chunk(video_links, num_threads, t)
      [] OTHER -> <<video_links[t]>>

\* The extractor instance thread t works with: one per thread in the chunked
\* mode (each thread constructs its own), one for all otherwise.
Ext(t) == IF mode = "chunked" THEN t ELSE Main

\* Whether the worker hands its own driver to extract_metadata (lines 836,
\* 1277), or calls it without one as the sequential callers do.
PassesNoDriver(t) == FALSE
PassesDriver(t) == t # Main

\* ----------------------------------------------------------------- handles
NewHandle(t) == [owner |-> t, alive |-> TRUE, quit |-> FALSE, users |-> {t}]

\* Whether the session behind h answers.
Answers(hs, h) == h # NoHandle /\ hs[h].alive

\* _is_driver_alive: driver is not None and driver.current_url succeeds.
\* IsAliveStale is the check without the probe of the session.
IsAliveStale(hs, h) == h # NoHandle
IsAlive(hs, h) == Answers(hs, h)

\* An operation of thread t on handle h; dies: the session died before it.
Touch(hs, h, t, dies) ==
    IF h = NoHandle THEN hs
    ELSE [hs EXCEPT ![h].users = @ \cup {t},
                    ![h].alive = @ /\ ~dies]

\* driver.quit() (with the close() fallback): the session is gone.
Quit(hs, h, t) ==
    IF h = NoHandle THEN hs
    ELSE [hs EXCEPT ![h].users = @ \cup {t}, ![h].quit = TRUE,
                    ![h].alive = FALSE]

CanFail == faults < budget
DieChoices(h) == IF Answers(handles, h) /\ CanFail THEN BOOLEAN ELSE {FALSE}
Cost(b) == IF b THEN 1 ELSE 0

InitLoc ==
    [idx |-> 1, url |-> None, useLocal |-> FALSE, driver |-> NoHandle,
     wdriver |-> NoHandle, attempt |-> 0, last_error |-> NoError,
     exc |-> NoError, md |-> NoRecord, cdAttempt |-> 0, site |-> "none",
     cdResult |-> NoHandle, ctx |-> "run", consumed |-> {},
     raising |-> FALSE,
     \* the worker's session creation raised, or an exception escaped
     failed |-> FALSE,
     \* what happened during the current call of extract_metadata
     warned |-> FALSE, deadAtStart |-> FALSE, trouble |-> FALSE,
     hadRecov |-> FALSE, recovered |-> FALSE,
     \* the driver.get calls of the current call, and whether one of them
     \* loaded the page on a session that was alive afterwards
     gets |-> 0, loaded |-> FALSE]

\* The locals at the start of a call of extract_metadata.
Called(l, url, useLocal) ==
    [l EXCEPT !.url = url, !.useLocal = useLocal, !.md = EmptyMetadata(url),
              !.warned = FALSE, !.deadAtStart = FALSE, !.trouble = FALSE,
              !.hadRecov = FALSE, !.recovered = FALSE, !.gets = 0,
              !.loaded = FALSE]

\* The locals when extract_metadata returns md: its frame is gone.
Returned(l, md) ==
    [l EXCEPT !.md = md, !.driver = NoHandle, !.attempt = 0,
              !.last_error = NoError, !.exc = NoError, !.cdResult = NoHandle,
              !.site = "none"]

\* The locals once the caller has stored the returned Record.
Stored(l) ==
    [l EXCEPT !.md = NoRecord, !.url = None, !.warned = FALSE,
              !.deadAtStart = FALSE, !.trouble = FALSE, !.hadRecov = FALSE,
              !.recovered = FALSE, !.gets = 0, !.loaded = FALSE]

\* loaded: the Records as they were loaded; stored: the index each retried
\* Record was written to; data: the dict of lines 1190-1198; result: the
\* returned counts, once there are any; load_failed: the document could not
\* be loaded; run, first: the number of this call on the path and the counts
\* the first call returned.
InitFin ==
    [videos |-> <<>>, failed_urls |-> <<>>, i |-> 1, successful |-> 0,
     still_failed |-> 0, returned |-> FALSE, loaded |-> <<>>,
     stored |-> <<>>, data |-> <<>>, result |-> <<>>, load_failed |-> FALSE,
     run |-> 1, first |-> <<>>]

\* The URL lists of n URLs: URL i is 100 * i, and a URL may stand in the
\* list more than once (load_links_from_json, lines 1222-1236, returns the
\* list of the input file as it is).
Distinct(n) == [i \in 1..n |-> 100 * i]
UrlLists(n) ==
    {s \in [1..n -> {100 * i : i \in 1..n}] :
        /\ s[1] = 100
        /\ \A i \in 2..n : s[i] \in {s[i - 1], s[i - 1] + 100}}

Idle == [stage |-> "idle"]

InitFor(m, links, k, out, b) ==
    LET n == Len(links) IN
    /\ mode = m
    /\ video_links = links
    /\ num_threads = k
    /\ output_file = out
    /\ pc = [t \in 0..NumWorkers(m, n, k) |->
               CASE t = Main /\ m = "chunked" -> "m_join"
                 [] t = Main /\ m = "threaded" /\ n > 1 -> "c_pool"
                 [] t = Main -> "c_setup"
                 [] m = "chunked" ->
                      IF ChunkSize(n, k, t - 1) > 0 THEN "w_start" ELSE "idle"
                 [] OTHER -> "p_queued"]
    /\ loc = [t \in 0..NumWorkers(m, n, k) |-> InitLoc]
    /\ handles = <<>>
    /\ selfDriver = [e \in 0..NumWorkers(m, n, k) |-> NoHandle]
    /\ creationLock = [e \in 0..NumWorkers(m, n, k) |-> None]
    /\ all_metadata = IF m = "threaded" /\ n > 1
                      THEN [i \in 1..n |-> NoRecord] ELSE <<>>
    /\ future = [i \in 1..(IF m = "threaded" /\ n > 1 THEN n ELSE 0) |-> NoRecord]
    /\ processed_count = 0
    /\ completed_count = 0
    /\ disk = [p \in {} |-> <<>>]
    /\ partial_writes = 0
    /\ extracted = [t \in 0..NumWorkers(m, n, k) |-> <<>>]
    /\ fin = InitFin
    /\ faults = 0
    /\ budget = b
    /\ broken = {}
    /\ sv = Idle
    /\ torn = {}
    /\ part = Idle
    /\ tiers = Idle
    /\ tags = Idle
    /\ lk = Idle
    /\ frame = Idle
    /\ parse = Idle

Init ==
    \E m \in Modes, n \in 1..MaxUrls, k \in 1..MaxThreads,
       out \in OutputFiles :
        /\ m = "chunked" => out # NoFile
        /\ m = "sequential" => k = 1
        /\ \E links \in UrlLists(n) : InitFor(m, links, k, out, MaxFaults)

\* ------------------------------------------------------------ _create_driver
\* with self._driver_creation_lock: the caller waits for the gate.
CreateDriverEnter(t) ==
    /\ pc[t] = "cd_lock"
    /\ creationLock[Ext(t)] = None
    /\ creationLock' = [creationLock EXCEPT ![Ext(t)] = t]
    /\ pc' = [pc EXCEPT ![t] = "cd_body"]
    /\ loc' = [loc EXCEPT ![t].cdAttempt = 0]
    /\ UNCHANGED <<cfg, units, handles, selfDriver, pool_state, extracted, faults>>

\* What one creation attempt can do: "ok", a handle whose probes all fail and
\* which is quit at once ("probe"), or an exception with the given message.  A first failure of a
\* call is an incident; the attempts after it may fail with it.
CreateOutcomes(t) ==
    IF CanFail \/ loc[t].cdAttempt > 0
    THEN {"ok", "probe", MsgMissing}
    ELSE {"ok"}

CreateMsg(o) == IF o = "probe" THEN MsgNotReachable ELSE o

\* After a failed attempt the loop goes on unless this was the last attempt:
\* a recoverable error waits and continues, any other error falls out of the
\* handler without raising and the for loop takes the next attempt.
CreateRaises(msg, attempt) == attempt = CreateMaxRetries - 1

\* The with statement of line 111 releases the gate when the call leaves it,
\* by return or by raise.
GateHeldOnRaise(lock, e, o, leaves) ==
    IF o = "ok" THEN [lock EXCEPT ![e] = None] ELSE lock
GateAfter(lock, e, o, leaves) ==
    IF leaves THEN [lock EXCEPT ![e] = None] ELSE lock

\* One attempt of the for loop inside the gate; the gate is released when the
\* call returns or raises.
CreateDriverAttempt(t) ==
    /\ pc[t] = "cd_body"
    /\ \E o \in CreateOutcomes(t) :
        LET l == loc[t]
            made == IF o = "ok"
                    THEN Append(handles, NewHandle(t)) ELSE handles
            h == Len(made)
            leaves == o = "ok" \/ CreateRaises(CreateMsg(o), l.cdAttempt)
        IN  /\ handles' = made
            /\ faults' = faults + Cost(o # "ok" /\ l.cdAttempt = 0)
            /\ creationLock' = GateAfter(creationLock, Ext(t), o, leaves)
            /\ pc' = [pc EXCEPT ![t] = IF leaves THEN l.site ELSE "cd_body"]
            /\ loc' = [loc EXCEPT
                         ![t].cdAttempt = IF leaves THEN 0 ELSE @ + 1,
                         ![t].cdResult = IF o = "ok" THEN h ELSE NoHandle,
                         ![t].exc = IF o = "ok" THEN NoError ELSE CreateMsg(o)]
    /\ UNCHANGED <<cfg, units, selfDriver, pool_state, extracted>>


\* ------------------------------------------------------------- setup_driver
\* setup_driver() can raise; the text is either a session-state error or not.
SetupFailMsgs == {MsgSession, MsgNotReachable}
SetupOutcomes(needed, spent) ==
    IF ~needed THEN {"skip"}
    ELSE IF faults + spent < budget THEN {"ok"} \cup SetupFailMsgs
    ELSE {"ok"}

\* self.driver = uc.Chrome(...): the previous self.driver is dropped unclosed.
AfterSetup(hs, t, o) == IF o = "ok" THEN Append(hs, NewHandle(t)) ELSE hs

\* --------------------------------------------------------- extract_metadata
\* Lines 218-222: use_local_driver, and the shared driver of the sequential
\* callers, set up when it is missing or dead.
EmEntry(t) ==
    /\ pc[t] = "em_entry"
    /\ LET l == loc[t]
           e == Ext(t)
       IN  IF l.useLocal
           THEN /\ pc' = [pc EXCEPT ![t] = "em_check"]
                /\ loc' = [loc EXCEPT ![t].driver = l.wdriver]
                /\ UNCHANGED <<handles, selfDriver, faults>>
           ELSE \E dies \in DieChoices(selfDriver[e]) :
                LET hs1 == Touch(handles, selfDriver[e], t, dies)
                    needed == ~IsAlive(hs1, selfDriver[e])
                IN  \E o \in SetupOutcomes(needed, Cost(dies)) :
                    LET hs2 == AfterSetup(hs1, t, o)
                        d == IF o = "ok" THEN Len(hs2) ELSE selfDriver[e]
                        raised == o \in SetupFailMsgs
                    IN  /\ handles' = hs2
                        /\ selfDriver' = [selfDriver EXCEPT ![e] = d]
                        /\ faults' = faults + Cost(dies) + Cost(raised)
                        /\ pc' = [pc EXCEPT ![t] =
                                    IF raised THEN "em_raise" ELSE "em_check"]
                        /\ loc' = [loc EXCEPT
                                     ![t].driver = d,
                                     ![t].exc = IF raised THEN o ELSE NoError]
    /\ UNCHANGED <<cfg, units, creationLock, pool_state, extracted>>

\* Lines 224-246: the liveness check before the retry loop.
EmCheck(t) ==
    /\ pc[t] = "em_check"
    /\ LET l == loc[t]
           e == Ext(t)
       IN  \E dies \in DieChoices(l.driver) :
           LET hs1 == Touch(handles, l.driver, t, dies)
               dead == ~IsAlive(hs1, l.driver)
           IN  \E o \in SetupOutcomes(dead /\ ~l.useLocal, Cost(dies)) :
               LET hs2 == AfterSetup(hs1, t, o)
                   raised == o \in SetupFailMsgs
               IN  /\ handles' = hs2
                   /\ faults' = faults + Cost(dies) + Cost(raised)
                   /\ selfDriver' = IF o = "ok"
                                    THEN [selfDriver EXCEPT ![e] = Len(hs2)]
                                    ELSE selfDriver
                   /\ pc' = [pc EXCEPT ![t] =
                               CASE ~dead -> "em_loop"
                                 [] l.useLocal -> "cd_lock"
                                 [] raised -> "em_raise"
                                 [] OTHER -> "em_loop"]
                   /\ loc' = [loc EXCEPT
                                ![t].driver = IF o = "ok" THEN Len(hs2) ELSE @,
                                ![t].site = IF dead /\ l.useLocal
                                            THEN "em_created_entry" ELSE @,
                                ![t].exc = IF raised THEN o ELSE NoError,
                                ![t].attempt = 0,
                                ![t].last_error = NoError,
                                ![t].deadAtStart = ~Answers(hs1, l.driver)]
    /\ UNCHANGED <<cfg, units, creationLock, pool_state, extracted>>

\* Lines 228-243: the creation called from the liveness check returned or
\* raised.
EmCreatedEntry(t) ==
    /\ pc[t] = "em_created_entry"
    /\ LET l == loc[t]
       IN  IF l.cdResult # NoHandle
           THEN /\ pc' = [pc EXCEPT ![t] = "em_loop"]
                /\ loc' = [loc EXCEPT ![t].driver = l.cdResult,
                                      ![t].cdResult = NoHandle,
                                      ![t].exc = NoError]
           ELSE /\ pc' = [pc EXCEPT ![t] = "em_return"]
                /\ loc' = [loc EXCEPT
                             ![t] = Returned([l EXCEPT !.trouble = TRUE],
                                             ErrorRecord(l.url, MsgCreationFailed))]
    /\ UNCHANGED <<cfg, units, handles, selfDriver, creationLock, pool_state,
                   extracted, faults>>

\* After a successful attempt the for loop has no break: it goes on to the
\* next attempt, until retry_attempt reaches max_retries.
LoopGoesOnAfterSuccess == TRUE

\* Lines 270-287: head of one attempt of the retry loop.
EmLoop(t) ==
    /\ pc[t] = "em_loop"
    /\ LET l == loc[t]
           e == Ext(t)
       IN  IF l.attempt >= ExtractMaxRetries
           THEN /\ pc' = [pc EXCEPT ![t] = "em_after"]
                /\ UNCHANGED <<loc, handles, selfDriver, faults>>
           ELSE \E dies \in DieChoices(l.driver) :
                LET hs1 == Touch(handles, l.driver, t, dies)
                    dead == ~IsAlive(hs1, l.driver)
                IN  \E o \in SetupOutcomes(dead /\ ~l.useLocal, Cost(dies)) :
                    LET hs2 == AfterSetup(hs1, t, o)
                        raised == o \in SetupFailMsgs
                    IN  /\ handles' = hs2
                        /\ faults' = faults + Cost(dies) + Cost(raised)
                        /\ selfDriver' = IF o = "ok"
                                         THEN [selfDriver EXCEPT ![e] = Len(hs2)]
                                         ELSE selfDriver
                        /\ pc' = [pc EXCEPT ![t] =
                                    CASE ~dead -> "em_get"
                                      [] l.useLocal -> "cd_lock"
                                      [] raised -> "em_handler"
                                      [] OTHER -> "em_get"]
                        /\ loc' = [loc EXCEPT
                                     ![t].driver = IF o = "ok" THEN Len(hs2) ELSE @,
                                     ![t].site = IF dead /\ l.useLocal
                                                 THEN "em_created_loop" ELSE @,
                                     ![t].exc = IF raised THEN o ELSE NoError,
                                     ![t].trouble = @ \/ dies \/ raised]
    /\ UNCHANGED <<cfg, units, creationLock, pool_state, extracted>>

\* Lines 276-283: the creation called from the loop head returned or raised.
EmCreatedLoop(t) ==
    /\ pc[t] = "em_created_loop"
    /\ LET l == loc[t]
       IN  IF l.cdResult # NoHandle
           THEN /\ pc' = [pc EXCEPT ![t] = "em_get"]
                /\ loc' = [loc EXCEPT ![t].driver = l.cdResult,
                                      ![t].cdResult = NoHandle,
                                      ![t].exc = NoError]
           ELSE /\ pc' = [pc EXCEPT ![t] =
                            IF l.attempt < ExtractMaxRetries - 1
                            THEN "em_loop" ELSE "em_after"]
                /\ loc' = [loc EXCEPT
                             ![t].last_error = MsgRecreationFailed,
                             ![t].exc = NoError,
                             ![t].trouble = TRUE,
                             ![t].attempt = IF l.attempt < ExtractMaxRetries - 1
                                            THEN @ + 1 ELSE @]
    /\ UNCHANGED <<cfg, units, handles, selfDriver, creationLock, pool_state,
                   extracted, faults>>

\* Line 295: driver.get(video_url).  On a session that does not answer it
\* raises a session error; on a live one it may fail with a session error
\* (the session is lost) or with another error.
GetOutcomes(h, url) ==
    IF ~Answers(handles, h) THEN {MsgSession}
    ELSE IF url \in broken THEN {MsgUnknown}
    ELSE IF CanFail THEN {"ok", MsgSession, MsgUnknown}
    ELSE {"ok"}

EmGet(t) ==
    /\ pc[t] = "em_get"
    /\ LET l == loc[t]
           incident == Answers(handles, l.driver) /\ l.url \notin broken
       IN  \E o \in GetOutcomes(l.driver, l.url) :
           /\ handles' = Touch(handles, l.driver, t, o = MsgSession)
           /\ faults' = faults + Cost(o # "ok" /\ incident)
           /\ pc' = [pc EXCEPT ![t] =
                       IF o = "ok" THEN "em_postget" ELSE "em_handler"]
           /\ loc' = [loc EXCEPT ![t].exc = IF o = "ok" THEN NoError ELSE o,
                                 ![t].gets = @ + 1,
                                 ![t].trouble = @ \/ (o # "ok" /\ incident)]
    /\ UNCHANGED <<cfg, units, selfDriver, creationLock, pool_state, extracted>>

\* Lines 299-304: the liveness check after the page load.
EmPostGet(t) ==
    /\ pc[t] = "em_postget"
    /\ LET l == loc[t]
       IN  \E dies \in DieChoices(l.driver) :
           LET hs1 == Touch(handles, l.driver, t, dies)
           IN  /\ handles' = hs1
               /\ faults' = faults + Cost(dies)
               /\ IF IsAlive(hs1, l.driver)
                  THEN /\ pc' = [pc EXCEPT ![t] =
                                   IF LoopGoesOnAfterSuccess
                                   THEN "em_loop" ELSE "em_after"]
                       /\ loc' = [loc EXCEPT ![t].attempt = @ + 1,
                                             ![t].loaded = TRUE,
                                             ![t].recovered = l.hadRecov,
                                             ![t].trouble = @ \/ dies]
                  ELSE /\ pc' = [pc EXCEPT ![t] = "em_handler"]
                       /\ loc' = [loc EXCEPT ![t].exc = MsgDiedAfterLoad,
                                             ![t].recovered = FALSE,
                                             ![t].trouble = TRUE]
    /\ UNCHANGED <<cfg, units, selfDriver, creationLock, pool_state, extracted>>

\* Lines 306-340: the except clauses of the retry loop.  last_error is set
\* and never cleared.
EmHandler(t) ==
    /\ pc[t] = "em_handler"
    /\ LET l == loc[t]
           e == Ext(t)
           retry == IsRecoverableLoad(l.exc) /\ l.attempt < ExtractMaxRetries - 1
       IN  \E o \in SetupOutcomes(retry /\ ~l.useLocal, 0) :
           LET hs2 == AfterSetup(handles, t, o)
               raised == o \in SetupFailMsgs
           IN  /\ handles' = hs2
               /\ faults' = faults + Cost(raised)
               /\ selfDriver' = IF o = "ok"
                                THEN [selfDriver EXCEPT ![e] = Len(hs2)]
                                ELSE selfDriver
               /\ pc' = [pc EXCEPT ![t] =
                           CASE ~retry -> "em_after"
                             [] l.useLocal -> "cd_lock"
                             [] raised -> "em_after"
                             [] OTHER -> "em_loop"]
               /\ loc' = [loc EXCEPT
                            ![t].last_error = IF raised THEN MsgRecreationFailed
                                              ELSE l.exc,
                            ![t].exc = NoError,
                            ![t].site = IF retry /\ l.useLocal
                                        THEN "em_created_handler" ELSE @,
                            ![t].driver = IF o = "ok" THEN Len(hs2) ELSE @,
                            ![t].attempt = IF o = "ok" THEN @ + 1 ELSE @,
                            ![t].hadRecov = @ \/ retry,
                            ![t].recovered = FALSE,
                            ![t].trouble = @ \/ raised]
    /\ UNCHANGED <<cfg, units, creationLock, pool_state, extracted>>

\* Lines 323-333: the creation called from the except clause returned or
\* raised.
EmCreatedHandler(t) ==
    /\ pc[t] = "em_created_handler"
    /\ LET l == loc[t]
       IN  IF l.cdResult # NoHandle
           THEN /\ pc' = [pc EXCEPT ![t] = "em_loop"]
                /\ loc' = [loc EXCEPT ![t].driver = l.cdResult,
                                      ![t].cdResult = NoHandle,
                                      ![t].exc = NoError,
                                      ![t].attempt = @ + 1]
           ELSE /\ pc' = [pc EXCEPT ![t] = "em_after"]
                /\ loc' = [loc EXCEPT ![t].last_error = MsgRecreationFailed,
                                      ![t].exc = NoError,
                                      ![t].trouble = TRUE]
    /\ UNCHANGED <<cfg, units, handles, selfDriver, creationLock, pool_state,
                   extracted, faults>>

\* Lines 342-360: a recorded last_error ends the call with an errored Record.
EmAfter(t) ==
    /\ pc[t] = "em_after"
    /\ LET l == loc[t]
       IN  IF l.last_error # NoError
           THEN /\ pc' = [pc EXCEPT ![t] = "em_return"]
                /\ loc' = [loc EXCEPT
                             ![t] = Returned(l, ErrorRecord(l.url, l.last_error))]
           ELSE /\ pc' = [pc EXCEPT ![t] = "em_365"]
                /\ loc' = loc
    /\ UNCHANGED <<cfg, units, handles, selfDriver, creationLock, pool_state,
                   extracted, faults>>

\* The numeric fields a tier that ran found on the page.
WithCounts(md) ==
    [md EXCEPT !.like_count = PageCount(md.url, "like_count"),
               !.comment_count = PageCount(md.url, "comment_count"),
               !.share_count = PageCount(md.url, "share_count"),
               !.view_count = PageCount(md.url, "view_count"),
               !.archive_count = PageCount(md.url, "archive_count")]

\* Lines 798-801: the outer except clause.
OuterExcept(md, msg) == [md EXCEPT !.error = msg]

\* Lines 362-366: the liveness check that opens the extraction; the one place
\* from which the outer except clause is reached.
Em365(t) ==
    /\ pc[t] = "em_365"
    /\ LET l == loc[t]
       IN  \E dies \in DieChoices(l.driver) :
           LET hs1 == Touch(handles, l.driver, t, dies)
           IN  /\ handles' = hs1
               /\ faults' = faults + Cost(dies)
               /\ IF IsAlive(hs1, l.driver)
                  THEN /\ pc' = [pc EXCEPT ![t] = "em_js"]
                       /\ loc' = [loc EXCEPT ![t].trouble = @ \/ dies]
                  ELSE /\ pc' = [pc EXCEPT ![t] = "em_finish"]
                       /\ loc' = [loc EXCEPT
                                    ![t].md = OuterExcept(l.md, MsgDiedDuringLoad),
                                    ![t].trouble = TRUE]
    /\ UNCHANGED <<cfg, units, selfDriver, creationLock, pool_state, extracted>>

\* A step of the extraction proper: a liveness check, then a session
\* operation.  The session may have died before the check ("died"), or the
\* operation may fail ("failed"); on a session that does not answer one of
\* the two fails.
StepOutcomes(h) ==
    IF ~Answers(handles, h) THEN {"died"}
    ELSE IF CanFail THEN {"ok", "died", "failed"}
    ELSE {"ok"}

\* Lines 369-472: script evaluation and the structured embedded data.  Every
\* failure is caught at line 471 and printed as a warning.
EmJs(t) ==
    /\ pc[t] = "em_js"
    /\ LET l == loc[t]
       IN  \E o \in StepOutcomes(l.driver) :
           /\ handles' = Touch(handles, l.driver, t, o = "died")
           /\ faults' = faults + Cost(o # "ok" /\ Answers(handles, l.driver))
           /\ pc' = [pc EXCEPT ![t] = "em_desc"]
           /\ loc' = [loc EXCEPT
                        ![t].md = IF o = "ok"
                                  THEN [WithCounts(@) EXCEPT
                                          !.description = PageDescription(l.url)]
                                  ELSE @,
                        ![t].warned = @ \/ o # "ok",
                        ![t].trouble = @ \/ o # "ok"]
    /\ UNCHANGED <<cfg, units, selfDriver, creationLock, pool_state, extracted>>

\* Lines 519-565: description from the DOM, then from the page source.  Every
\* failure is caught at line 564 and printed as a warning.
EmDesc(t) ==
    /\ pc[t] = "em_desc"
    /\ LET l == loc[t]
       IN  \E o \in StepOutcomes(l.driver) :
           /\ handles' = Touch(handles, l.driver, t, o = "died")
           /\ faults' = faults + Cost(o # "ok" /\ Answers(handles, l.driver))
           /\ pc' = [pc EXCEPT ![t] = "em_metrics"]
           /\ loc' = [loc EXCEPT
                        ![t].md = IF o = "ok"
                                  THEN [@ EXCEPT
                                          !.description = PageDescription(l.url)]
                                  ELSE @,
                        ![t].warned = @ \/ o # "ok",
                        ![t].trouble = @ \/ o # "ok"]
    /\ UNCHANGED <<cfg, units, selfDriver, creationLock, pool_state, extracted>>

\* Lines 567-794: engagement metrics from the page source.  Every failure is
\* caught at line 793 and printed as a warning.
EmMetrics(t) ==
    /\ pc[t] = "em_metrics"
    /\ LET l == loc[t]
       IN  \E o \in StepOutcomes(l.driver) :
           /\ handles' = Touch(handles, l.driver, t, o = "died")
           /\ faults' = faults + Cost(o # "ok" /\ Answers(handles, l.driver))
           /\ pc' = [pc EXCEPT ![t] = "em_finish"]
           /\ loc' = [loc EXCEPT
                        ![t].md = IF o = "ok" THEN WithCounts(@) ELSE @,
                        ![t].warned = @ \/ o # "ok",
                        ![t].trouble = @ \/ o # "ok"]
    /\ UNCHANGED <<cfg, units, selfDriver, creationLock, pool_state, extracted>>

\* Lines 806-815: hashtags, archive_count normalisation, return.
EmFinish(t) ==
    /\ pc[t] = "em_finish"
    /\ pc' = [pc EXCEPT ![t] = "em_return"]
    /\ loc' = [loc EXCEPT ![t] = Returned(loc[t], loc[t].md)]
    /\ UNCHANGED <<cfg, units, handles, selfDriver, creationLock, pool_state,
                   extracted, faults>>

\* ------------------------------------------------------------- save_results
\* Line 1028: output_file.replace('.json', '_partial.json').
RECURSIVE Replace(_, _, _)
Replace(path, old, new) ==
    IF path = <<>> THEN <<>>
    ELSE (IF Head(path) = old THEN new ELSE <<Head(path)>>)
         \o Replace(Tail(path), old, new)

PartialPath(out) == Replace(out, ".json", <<"_partial", ".json">>)
SavePath(out, partial) == IF partial THEN PartialPath(out) ELSE out

SaveOutcomes == IF CanFail THEN {"ok", "failed"} ELSE {"ok"}

\* Lines 1055-1070: the document written to the target path.
\* Lines 1055-1059: the document save_results builds (extracted_at is a
\* timestamp and is left out).
Document(metadata) ==
    [total_videos |-> Len(metadata), videos |-> metadata]

Saved(d, metadata, out, partial, o) ==
    IF o = "ok" THEN (SavePath(out, partial) :> Document(metadata)) @@ d
    ELSE d

\* ------------------------------------------------ _process_chunk_in_thread
\* Lines 1259-1270: the worker creates its driver.
WStart(t) ==
    /\ pc[t] = "w_start"
    /\ pc' = [pc EXCEPT ![t] = "cd_lock"]
    /\ loc' = [loc EXCEPT ![t].site = "w_created"]
    /\ UNCHANGED <<cfg, units, handles, selfDriver, creationLock, pool_state,
                   extracted, faults>>

\* Lines 1270-1271 and 1289-1292: the creation returned, or raised into the
\* except clause, which records nothing for the chunk.
WCreated(t) ==
    /\ pc[t] = "w_created"
    /\ LET l == loc[t]
       IN  /\ pc' = [pc EXCEPT ![t] =
                       IF l.cdResult # NoHandle THEN "w_loop" ELSE "w_cleanup"]
           /\ loc' = [loc EXCEPT ![t].wdriver = l.cdResult, ![t].idx = 1,
                                 ![t].cdResult = NoHandle, ![t].exc = NoError,
                                 ![t].failed = l.cdResult = NoHandle]
    /\ UNCHANGED <<cfg, units, handles, selfDriver, creationLock, pool_state,
                   extracted, faults>>

\* Lines 1273-1277: the next URL of the chunk goes to extract_metadata.
WLoop(t) ==
    /\ pc[t] = "w_loop"
    /\ LET l == loc[t]
       IN  IF l.idx <= Len(Assigned(t))
           THEN /\ pc' = [pc EXCEPT ![t] = "em_entry"]
                /\ loc' = [loc EXCEPT
                             ![t] = Called(l, Assigned(t)[l.idx], PassesDriver(t))]
                /\ extracted' = [extracted EXCEPT
                                   ![t] = Append(@, Assigned(t)[l.idx])]
           ELSE /\ pc' = [pc EXCEPT ![t] = "w_cleanup"]
                /\ UNCHANGED <<loc, extracted>>
    /\ UNCHANGED <<cfg, units, handles, selfDriver, creationLock, pool_state, faults>>

\* Lines 1279-1288: the Record is appended to the shared list.
WAppend(t) ==
    /\ pc[t] = "em_return"
    /\ mode = "chunked"
    /\ t # Main
    /\ all_metadata' = Append(all_metadata, loc[t].md)
    /\ pc' = [pc EXCEPT ![t] = "w_loop"]
    /\ loc' = [loc EXCEPT ![t] = [Stored(@) EXCEPT !.idx = @ + 1]]
    /\ UNCHANGED <<cfg, units, handles, selfDriver, creationLock, future,
                   processed_count, completed_count, disk, partial_writes,
                   extracted, fin, faults>>

\* Lines 1293-1304: the finally clause closes the worker's own driver.
WCleanup(t) ==
    /\ pc[t] = "w_cleanup"
    /\ handles' = Quit(handles, loc[t].wdriver, t)
    /\ pc' = [pc EXCEPT ![t] = "done"]
    /\ loc' = [loc EXCEPT ![t] = [InitLoc EXCEPT !.failed = loc[t].failed]]
    /\ UNCHANGED <<cfg, units, selfDriver, creationLock, pool_state, extracted,
                   faults>>

\* ------------------------------------------------------ main, chunked mode
FinishedUnfailed(t) == pc[t] \in {"done", "idle"} /\ ~loc[t].failed
Finished(t) == pc[t] \in {"done", "idle"}

\* main.py lines 320-329: join every thread, then one final save_results.
MJoin ==
    /\ pc[Main] = "m_join"
    /\ \A w \in Workers : Finished(w)
    /\ \E o \in SaveOutcomes :
        /\ disk' = Saved(disk, all_metadata, output_file, FALSE, o)
        /\ faults' = faults + Cost(o # "ok")
        /\ pc' = [pc EXCEPT ![Main] = IF o = "ok" THEN "c_returned" ELSE "c_failed"]
    /\ UNCHANGED <<cfg, units, loc, handles, selfDriver, creationLock, all_metadata,
                   future, processed_count, completed_count, partial_writes,
                   extracted, fin>>


\* ---------------------------------------------------- _process_single_video
Running(t) == pc[t] \notin {"p_queued", "done", "idle"}

\* The executor hands the queued tasks to its threads in submission order, at
\* most max_workers = num_threads at a time.  Lines 830-833.
PStart(t) ==
    /\ pc[t] = "p_queued"
    /\ Cardinality({w \in Workers : Running(w)}) < num_threads
    /\ \A w \in Workers : w < t => pc[w] # "p_queued"
    /\ pc' = [pc EXCEPT ![t] = "cd_lock"]
    /\ loc' = [loc EXCEPT ![t].site = "p_created", ![t].url = video_links[t]]
    /\ UNCHANGED <<cfg, units, handles, selfDriver, creationLock, pool_state,
                   extracted, faults>>

\* Lines 833-836, and 851-872 when the creation raised.
PCreated(t) ==
    /\ pc[t] = "p_created"
    /\ LET l == loc[t]
       IN  IF l.cdResult # NoHandle
           THEN /\ pc' = [pc EXCEPT ![t] = "em_entry"]
                /\ loc' = [loc EXCEPT
                             ![t] = [Called(l, l.url, PassesDriver(t)) EXCEPT
                                       !.wdriver = l.cdResult,
                                       !.cdResult = NoHandle,
                                       !.exc = NoError]]
                /\ extracted' = [extracted EXCEPT ![t] = Append(@, l.url)]
                /\ UNCHANGED processed_count
           ELSE /\ pc' = [pc EXCEPT ![t] = "p_finally"]
                /\ loc' = [loc EXCEPT ![t].md = ErrorRecord(l.url, l.exc),
                                      ![t].exc = NoError,
                                      ![t].failed = TRUE]
                /\ processed_count' = processed_count + 1
                /\ UNCHANGED extracted
    /\ UNCHANGED <<cfg, units, handles, selfDriver, creationLock, all_metadata,
                   future, completed_count, disk, partial_writes, fin, faults>>

\* Lines 838-849: the progress counter, then return metadata.
PReturn(t) ==
    /\ pc[t] = "em_return"
    /\ mode = "threaded"
    /\ t # Main
    /\ processed_count' = processed_count + 1
    /\ pc' = [pc EXCEPT ![t] = "p_finally"]
    /\ UNCHANGED <<cfg, units, loc, handles, selfDriver, creationLock, all_metadata,
                   future, completed_count, disk, partial_writes, extracted,
                   fin, faults>>

\* Lines 873-886: the finally clause closes the task's own driver; the future
\* then holds the returned Record.
PFinally(t) ==
    /\ pc[t] = "p_finally"
    /\ handles' = Quit(handles, loc[t].wdriver, t)
    /\ future' = [future EXCEPT ![t] = loc[t].md]
    /\ pc' = [pc EXCEPT ![t] = "done"]
    /\ loc' = [loc EXCEPT ![t] = [InitLoc EXCEPT !.failed = loc[t].failed]]
    /\ UNCHANGED <<cfg, units, selfDriver, creationLock, all_metadata,
                   processed_count, completed_count, disk, partial_writes,
                   extracted, fin, faults>>

\* --------------------------------------------------------- extract_from_links
NotNone(m) == m # NoRecord
Completed(metadata) == SelectSeq(metadata, NotNone)

\* completed % 10 == 0 and output_file
AtMilestone(count) == count % CheckpointInterval = 0 /\ output_file # NoFile

\* Lines 950-992: one iteration of the as_completed loop.
CPoolConsume ==
    /\ pc[Main] = "c_pool"
    /\ \E i \in DOMAIN future \ loc[Main].consumed :
        /\ future[i] # NoRecord
        /\ LET slots == [all_metadata EXCEPT ![i] = future[i]]
               count == completed_count + 1
           IN  \E o \in (IF AtMilestone(count) THEN SaveOutcomes ELSE {"none"}) :
               /\ partial_writes' = partial_writes + Cost(o # "none")
               /\ disk' = IF o = "none" THEN disk
                          ELSE Saved(disk, Completed(slots), output_file, TRUE, o)
               /\ faults' = faults + Cost(o = "failed")
               /\ all_metadata' =
                      IF o = "failed"
                      THEN [slots EXCEPT ![i] = ErrorRecord(video_links[i], MsgSaveFailed)]
                      ELSE slots
               /\ completed_count' = count + Cost(o = "failed")
        /\ loc' = [loc EXCEPT ![Main].consumed = @ \cup {i}]
    /\ UNCHANGED <<cfg, units, pc, handles, selfDriver, creationLock, future,
                   processed_count, extracted, fin>>

\* The with block of the executor ends when every future is done; control
\* then reaches the try statement of line 998, which is not part of the else
\* branch.
CPoolExit ==
    /\ pc[Main] = "c_pool"
    /\ loc[Main].consumed = DOMAIN future
    /\ pc' = [pc EXCEPT ![Main] = "c_seq"]
    /\ loc' = [loc EXCEPT ![Main].idx = 1]
    /\ UNCHANGED <<cfg, units, handles, selfDriver, creationLock, pool_state,
                   extracted, faults>>

\* Lines 993-996: the else branch sets up the shared driver.
CSetup ==
    /\ pc[Main] = "c_setup"
    /\ \E o \in SetupOutcomes(selfDriver[Main] = NoHandle, 0) :
        LET hs2 == AfterSetup(handles, Main, o)
        IN  /\ handles' = hs2
            /\ faults' = faults + Cost(o \in SetupFailMsgs)
            /\ selfDriver' = IF o = "ok"
                             THEN [selfDriver EXCEPT ![Main] = Len(hs2)]
                             ELSE selfDriver
            /\ pc' = [pc EXCEPT ![Main] =
                        IF o \in SetupFailMsgs THEN "c_failed" ELSE "c_seq"]
    /\ loc' = [loc EXCEPT ![Main].idx = 1]
    /\ UNCHANGED <<cfg, units, creationLock, pool_state, extracted>>

\* Lines 998-1001: the loop over video_links calls extract_metadata(video_url).
CSeqLoop ==
    /\ pc[Main] = "c_seq"
    /\ LET l == loc[Main]
       IN  IF l.idx <= Len(video_links)
           THEN /\ pc' = [pc EXCEPT ![Main] = "em_entry"]
                /\ loc' = [loc EXCEPT
                             ![Main] = [Called(l, video_links[l.idx], FALSE)
                                          EXCEPT !.ctx = "run"]]
                /\ extracted' = [extracted EXCEPT
                                   ![Main] = Append(@, video_links[l.idx])]
           ELSE /\ pc' = [pc EXCEPT ![Main] = "c_finally"]
                /\ UNCHANGED <<loc, extracted>>
    /\ UNCHANGED <<cfg, units, handles, selfDriver, creationLock, pool_state, faults>>

\* Lines 1002-1007: append, and the periodic save.
CSeqAppend ==
    /\ pc[Main] = "em_return"
    /\ loc[Main].ctx = "run"
    /\ LET l == loc[Main]
           appended == Append(all_metadata, l.md)
       IN  \E o \in (IF AtMilestone(l.idx) THEN SaveOutcomes ELSE {"none"}) :
           /\ all_metadata' = appended
           /\ partial_writes' = partial_writes + Cost(o # "none")
           /\ disk' = IF o = "none" THEN disk
                      ELSE Saved(disk, appended, output_file, TRUE, o)
           /\ faults' = faults + Cost(o = "failed")
           /\ pc' = [pc EXCEPT ![Main] = IF o = "failed" THEN "c_finally" ELSE "c_seq"]
           /\ loc' = [loc EXCEPT
                        ![Main] = [Stored(@) EXCEPT !.idx = @ + 1,
                                                    !.raising = o = "failed"]]
    /\ UNCHANGED <<cfg, units, handles, selfDriver, creationLock, future,
                   processed_count, completed_count, extracted, fin>>

\* Lines 1008-1010: finally: self.driver.quit(); a pending exception goes on
\* to the caller.
CFinally ==
    /\ pc[Main] = "c_finally"
    /\ handles' = Quit(handles, selfDriver[Main], Main)
    /\ pc' = [pc EXCEPT ![Main] =
                CASE loc[Main].raising -> "c_failed"
                  [] output_file = NoFile -> "c_returned"
                  [] OTHER -> "c_final_save"]
    /\ all_metadata' = Completed(all_metadata)
    /\ UNCHANGED <<cfg, units, loc, selfDriver, creationLock, future, processed_count,
                   completed_count, disk, partial_writes, extracted, fin, faults>>

\* Lines 1015-1018: the final document is written twice.
CFinalSave ==
    /\ pc[Main] \in {"c_final_save", "c_final_save2"}
    /\ \E o \in SaveOutcomes :
        /\ disk' = Saved(disk, all_metadata, output_file, FALSE, o)
        /\ faults' = faults + Cost(o = "failed")
        /\ pc' = [pc EXCEPT ![Main] =
                    CASE o = "failed" -> "c_failed"
                      [] pc[Main] = "c_final_save" -> "c_final_save2"
                      [] OTHER -> "c_returned"]
    /\ UNCHANGED <<cfg, units, loc, handles, selfDriver, creationLock, all_metadata,
                   future, processed_count, completed_count, partial_writes,
                   extracted, fin>>

\* ---------------------------------------------- finalize_and_retry_errors
HasError(v) == v.error # NoError

\* Line 1124: only the errored Records that carry a URL are retried.
HasUrlOrNot(v) == TRUE
HasUrl(v) == v.url # None

RECURSIVE Urls(_)
Urls(vs) == IF vs = <<>> THEN <<>> ELSE <<Head(vs).url>> \o Urls(Tail(vs))

\* Lines 1132-1137: a later Record of the same URL replaces the index.
UrlToIndex(videos, url) ==
    CHOOSE i \in DOMAIN videos :
        /\ videos[i].url = url
        /\ \A j \in DOMAIN videos : j > i => videos[j].url # url

\* Lines 1095-1104: the file is there and json.load can read it (a partly
\* written file is not valid JSON).
Loads(path) == path \in DOMAIN disk /\ path \notin torn

\* Lines 1097, 1104, 1113, 1121, 1130: what every early return hands back.
NoErrorsFound == [retried |-> 0, successful |-> 0, still_failed |-> 0]

\* args.finalize: main.py runs the Finalizer after its own modes only.
FinalizeChoices == IF mode = "threaded" THEN {FALSE} ELSE BOOLEAN

\* main.py lines 351-356: --finalize runs the Finalizer on the saved file.
\* Lines 1095-1146: load, select the errored Records, set up the driver.
FLoad ==
    /\ pc[Main] = "c_returned"
    /\ \E finalize \in FinalizeChoices :
       IF ~finalize
       THEN /\ pc' = [pc EXCEPT ![Main] = "done"]
            /\ UNCHANGED <<fin, handles, selfDriver, faults, loc>>
       ELSE IF ~Loads(output_file)
       THEN /\ pc' = [pc EXCEPT ![Main] = "done"]
            /\ fin' = [fin EXCEPT !.result = <<NoErrorsFound>>,
                                  !.load_failed = TRUE]
            /\ UNCHANGED <<handles, selfDriver, faults, loc>>
       ELSE LET videos == disk[output_file].videos
                failed == Urls(SelectSeq(SelectSeq(videos, HasError), HasUrl))
            IN  \E o \in SetupOutcomes(failed # <<>> /\ selfDriver[Main] = NoHandle, 0) :
                LET hs2 == AfterSetup(handles, Main, o)
                IN  /\ handles' = hs2
                    /\ faults' = faults + Cost(o \in SetupFailMsgs)
                    /\ selfDriver' = IF o = "ok"
                                     THEN [selfDriver EXCEPT ![Main] = Len(hs2)]
                                     ELSE selfDriver
                    /\ fin' = [fin EXCEPT
                                 !.videos = videos,
                                 !.loaded = videos,
                                 !.failed_urls = failed,
                                 !.returned = failed = <<>>,
                                 !.result = IF failed = <<>>
                                            THEN <<NoErrorsFound>> ELSE <<>>]
                    /\ loc' = [loc EXCEPT ![Main].ctx = "fin"]
                    /\ pc' = [pc EXCEPT ![Main] =
                                CASE failed = <<>> -> "done"
                                  [] o \in SetupFailMsgs -> "c_failed"
                                  [] OTHER -> "f_loop"]
    /\ UNCHANGED <<cfg, units, creationLock, all_metadata, future, processed_count,
                   completed_count, disk, partial_writes, extracted>>

\* Lines 1148-1153: the sequential retry loop.
FLoop ==
    /\ pc[Main] = "f_loop"
    /\ IF fin.i <= Len(fin.failed_urls)
       THEN /\ pc' = [pc EXCEPT ![Main] = "em_entry"]
            /\ loc' = [loc EXCEPT
                         ![Main] = Called(@, fin.failed_urls[fin.i], FALSE)]
            /\ extracted' = [extracted EXCEPT
                               ![Main] = Append(@, fin.failed_urls[fin.i])]
       ELSE /\ pc' = [pc EXCEPT ![Main] = "f_finally"]
            /\ UNCHANGED <<loc, extracted>>
    /\ UNCHANGED <<cfg, units, handles, selfDriver, creationLock, pool_state, faults>>

\* Lines 1155-1173: the new Record replaces the one at the URL's index.
FRetried ==
    /\ pc[Main] = "em_return"
    /\ loc[Main].ctx = "fin"
    /\ LET md == loc[Main].md
           idx == UrlToIndex(fin.videos, md.url)
       IN  fin' = [fin EXCEPT
                     !.videos = [@ EXCEPT ![idx] = md],
                     !.stored = Append(@, idx),
                     !.i = @ + 1,
                     !.successful = @ + Cost(~HasError(md)),
                     !.still_failed = @ + Cost(HasError(md))]
    /\ pc' = [pc EXCEPT ![Main] = "f_loop"]
    /\ loc' = [loc EXCEPT ![Main] = Stored(@)]
    /\ UNCHANGED <<cfg, units, handles, selfDriver, creationLock, all_metadata,
                   future, processed_count, completed_count, disk,
                   partial_writes, extracted, faults>>

\* Lines 1183-1187: finally: quit the driver and forget it.
FFinally ==
    /\ pc[Main] = "f_finally"
    /\ handles' = Quit(handles, selfDriver[Main], Main)
    /\ selfDriver' = [selfDriver EXCEPT ![Main] = NoHandle]
    /\ pc' = [pc EXCEPT ![Main] = "f_save"]
    /\ UNCHANGED <<cfg, units, loc, creationLock, pool_state, extracted, faults>>

\* Lines 1190-1198: the dict the Finalizer updates after the pass
\* (finalized_at is a timestamp and is left out).
NoErr(v) == ~HasError(v)
Finalized(videos) ==
    [videos |-> videos,
     total_videos |-> Len(videos),
     successful_extractions |-> Len(SelectSeq(videos, NoErr)),
     failed_extractions |-> Len(videos) - Len(SelectSeq(videos, NoErr))]

\* Lines 1189-1220: the document is saved again and the counts are returned.
FSave ==
    /\ pc[Main] = "f_save"
    /\ \E o \in SaveOutcomes :
        /\ disk' = Saved(disk, fin.videos, output_file, FALSE, o)
        /\ faults' = faults + Cost(o = "failed")
        /\ pc' = [pc EXCEPT ![Main] = IF o = "failed" THEN "c_failed" ELSE "done"]
        /\ fin' = [fin EXCEPT
                     !.returned = o = "ok",
                     !.data = <<Finalized(fin.videos)>>,
                     !.result = IF o = "ok"
                                THEN <<[retried |-> Len(fin.failed_urls),
                                        successful |-> fin.successful,
                                        still_failed |-> fin.still_failed]>>
                                ELSE <<>>]
    /\ UNCHANGED <<cfg, units, loc, handles, selfDriver, creationLock, all_metadata,
                   future, processed_count, completed_count, partial_writes,
                   extracted>>

\* ------------------------------------- an exception leaves extract_metadata
\* setup_driver() raised outside the try statements of extract_metadata: the
\* caller's handler takes over (extract_from_links: the finally clause of
\* line 1008; finalize_and_retry_errors: the except clause of line 1175;
\* _process_chunk_in_thread: line 1289; _process_single_video: line 851).
\* The except clause of lines 1175-1181 is inside the for loop: the loop
\* goes on with the next URL.
RetryHandlerOutsideLoop == "f_finally"
RetryHandler == "f_loop"

EmRaise(t) ==
    /\ pc[t] = "em_raise"
    /\ LET l == loc[t]
           where == CASE t = Main /\ l.ctx = "run" -> "c_finally"
                      [] t = Main -> RetryHandler
                      [] mode = "chunked" -> "w_cleanup"
                      [] OTHER -> "p_finally"
       IN  /\ pc' = [pc EXCEPT ![t] = where]
           /\ loc' = [loc EXCEPT
                        ![t].raising = where = "c_finally",
                        ![t].failed = t # Main,
                        ![t].md = IF where = "p_finally"
                                  THEN ErrorRecord(l.url, l.exc) ELSE @,
                        ![t].exc = NoError]
           /\ processed_count' = processed_count + Cost(where = "p_finally")
           /\ fin' = IF where = "f_loop"
                     THEN [fin EXCEPT
                             !.videos = [@ EXCEPT
                                 ![UrlToIndex(fin.videos, l.url)].error = MsgRetryFailed],
                             !.stored = Append(@, UrlToIndex(fin.videos, l.url)),
                             !.i = @ + 1,
                             !.still_failed = @ + 1]
                     ELSE fin
    /\ UNCHANGED <<cfg, units, handles, selfDriver, creationLock, all_metadata, future,
                   completed_count, disk, partial_writes, extracted, faults>>

\* ---------------------------------------------------------------- scheduling
\* Between its calls of _create_driver and the hand-over of its Record, a
\* thread inside extract_metadata works on its own driver and its own local
\* variables only: such steps commute with the steps of every other thread.
\* The model lets a thread that stands in such a run of steps finish it before
\* another thread moves (the lowest thread first when several stand in one);
\* threads interleave at the creation gate, inside it, and wherever a shared
\* variable is read or written.
LocalPcs ==
    {"em_entry", "em_check", "em_created_entry", "em_loop", "em_created_loop",
     "em_get", "em_postget", "em_handler", "em_created_handler", "em_after",
     "em_365", "em_js", "em_desc", "em_metrics", "em_finish", "em_raise",
     "w_start", "w_created", "w_loop", "w_cleanup", "p_created"}

Turn(t) ==
    \A u \in DOMAIN pc :
        u # t /\ pc[u] \in LocalPcs => pc[t] \in LocalPcs /\ t < u

\* ------------------------------------------------------------ specification
Next ==
    \/ \E t \in DOMAIN pc : Turn(t) /\ CreateDriverEnter(t)
    \/ \E t \in DOMAIN pc : Turn(t) /\ CreateDriverAttempt(t)
    \/ \E t \in DOMAIN pc : Turn(t) /\ EmEntry(t)
    \/ \E t \in DOMAIN pc : Turn(t) /\ EmCheck(t)
    \/ \E t \in DOMAIN pc : Turn(t) /\ EmCreatedEntry(t)
    \/ \E t \in DOMAIN pc : Turn(t) /\ EmLoop(t)
    \/ \E t \in DOMAIN pc : Turn(t) /\ EmCreatedLoop(t)
    \/ \E t \in DOMAIN pc : Turn(t) /\ EmGet(t)
    \/ \E t \in DOMAIN pc : Turn(t) /\ EmPostGet(t)
    \/ \E t \in DOMAIN pc : Turn(t) /\ EmHandler(t)
    \/ \E t \in DOMAIN pc : Turn(t) /\ EmCreatedHandler(t)
    \/ \E t \in DOMAIN pc : Turn(t) /\ EmAfter(t)
    \/ \E t \in DOMAIN pc : Turn(t) /\ Em365(t)
    \/ \E t \in DOMAIN pc : Turn(t) /\ EmJs(t)
    \/ \E t \in DOMAIN pc : Turn(t) /\ EmDesc(t)
    \/ \E t \in DOMAIN pc : Turn(t) /\ EmMetrics(t)
    \/ \E t \in DOMAIN pc : Turn(t) /\ EmFinish(t)
    \/ \E t \in DOMAIN pc : Turn(t) /\ EmRaise(t)
    \/ \E t \in Workers : Turn(t) /\ WStart(t)
    \/ \E t \in Workers : Turn(t) /\ WCreated(t)
    \/ \E t \in Workers : Turn(t) /\ WLoop(t)
    \/ \E t \in Workers : Turn(t) /\ WAppend(t)
    \/ \E t \in Workers : Turn(t) /\ WCleanup(t)
    \/ Turn(Main) /\ MJoin
    \/ \E t \in Workers : Turn(t) /\ PStart(t)
    \/ \E t \in Workers : Turn(t) /\ PCreated(t)
    \/ \E t \in Workers : Turn(t) /\ PReturn(t)
    \/ \E t \in Workers : Turn(t) /\ PFinally(t)
    \/ Turn(Main) /\ CPoolConsume
    \/ Turn(Main) /\ CPoolExit
    \/ Turn(Main) /\ CSetup
    \/ Turn(Main) /\ CSeqLoop
    \/ Turn(Main) /\ CSeqAppend
    \/ Turn(Main) /\ CFinally
    \/ Turn(Main) /\ CFinalSave
    \/ Turn(Main) /\ FLoad
    \/ Turn(Main) /\ FLoop
    \/ Turn(Main) /\ FRetried
    \/ Turn(Main) /\ FFinally
    \/ Turn(Main) /\ FSave

Spec == Init /\ [][Next]_vars

\* Runs long enough to pass a checkpoint, in the two modes main.py starts:
\* CkptUrls URLs, an output path, CkptThreads threads in the chunked mode and
\* at most CkptFaults incidents.
CkptUrls == 10
CkptThreads == 1
CkptFaults == 2

InitCkpt ==
    \E m \in {"sequential", "chunked"}, k \in 1..CkptThreads :
        /\ m = "sequential" => k = 1
        /\ InitFor(m, Distinct(CkptUrls), k, OutFile, CkptFaults)

NextCkpt ==
    \/ \E t \in DOMAIN pc : Turn(t) /\ CreateDriverEnter(t)
    \/ \E t \in DOMAIN pc : Turn(t) /\ CreateDriverAttempt(t)
    \/ \E t \in DOMAIN pc : Turn(t) /\ EmEntry(t)
    \/ \E t \in DOMAIN pc : Turn(t) /\ EmCheck(t)
    \/ \E t \in DOMAIN pc : Turn(t) /\ EmCreatedEntry(t)
    \/ \E t \in DOMAIN pc : Turn(t) /\ EmLoop(t)
    \/ \E t \in DOMAIN pc : Turn(t) /\ EmCreatedLoop(t)
    \/ \E t \in DOMAIN pc : Turn(t) /\ EmGet(t)
    \/ \E t \in DOMAIN pc : Turn(t) /\ EmPostGet(t)
    \/ \E t \in DOMAIN pc : Turn(t) /\ EmHandler(t)
    \/ \E t \in DOMAIN pc : Turn(t) /\ EmCreatedHandler(t)
    \/ \E t \in DOMAIN pc : Turn(t) /\ EmAfter(t)
    \/ \E t \in DOMAIN pc : Turn(t) /\ Em365(t)
    \/ \E t \in DOMAIN pc : Turn(t) /\ EmJs(t)
    \/ \E t \in DOMAIN pc : Turn(t) /\ EmDesc(t)
    \/ \E t \in DOMAIN pc : Turn(t) /\ EmMetrics(t)
    \/ \E t \in DOMAIN pc : Turn(t) /\ EmFinish(t)
    \/ \E t \in DOMAIN pc : Turn(t) /\ EmRaise(t)
    \/ \E t \in Workers : Turn(t) /\ WStart(t)
    \/ \E t \in Workers : Turn(t) /\ WCreated(t)
    \/ \E t \in Workers : Turn(t) /\ WLoop(t)
    \/ \E t \in Workers : Turn(t) /\ WAppend(t)
    \/ \E t \in Workers : Turn(t) /\ WCleanup(t)
    \/ Turn(Main) /\ MJoin
    \/ Turn(Main) /\ CSetup
    \/ Turn(Main) /\ CSeqLoop
    \/ Turn(Main) /\ CSeqAppend
    \/ Turn(Main) /\ CFinally
    \/ Turn(Main) /\ CFinalSave
    \/ Turn(Main) /\ FLoad
    \/ Turn(Main) /\ FLoop
    \/ Turn(Main) /\ FRetried
    \/ Turn(Main) /\ FFinally
    \/ Turn(Main) /\ FSave

SpecCkpt == InitCkpt /\ [][NextCkpt]_vars

\* ------------------------------------ the pool of extract_from_links at length
\* extract_from_links(video_links, output_file) with use_threading left at
\* True, long enough to pass a checkpoint: PoolUrls URLs, an executor of up to
\* PoolThreads threads and at most PoolFaults incidents.
PoolUrls == 10
PoolThreads == 1
PoolFaults == 1

InitPool ==
    \E k \in 1..PoolThreads :
        InitFor("threaded", Distinct(PoolUrls), k, OutFile, PoolFaults)

\* as_completed hands a future to the loop of line 950 when it is done.  The
\* pool's threads and that loop share nothing but the futures, so the runs in
\* which the loop takes each future as soon as it is done stand for all.
Waiting ==
    /\ pc[Main] = "c_pool"
    /\ \E i \in DOMAIN future \ loc[Main].consumed : future[i] # NoRecord
Eager(t) == Turn(t) /\ (t # Main => ~Waiting)

NextPool ==
    \/ \E t \in DOMAIN pc : Eager(t) /\ CreateDriverEnter(t)
    \/ \E t \in DOMAIN pc : Eager(t) /\ CreateDriverAttempt(t)
    \/ \E t \in DOMAIN pc : Eager(t) /\ EmEntry(t)
    \/ \E t \in DOMAIN pc : Eager(t) /\ EmCheck(t)
    \/ \E t \in DOMAIN pc : Eager(t) /\ EmCreatedEntry(t)
    \/ \E t \in DOMAIN pc : Eager(t) /\ EmLoop(t)
    \/ \E t \in DOMAIN pc : Eager(t) /\ EmCreatedLoop(t)
    \/ \E t \in DOMAIN pc : Eager(t) /\ EmGet(t)
    \/ \E t \in DOMAIN pc : Eager(t) /\ EmPostGet(t)
    \/ \E t \in DOMAIN pc : Eager(t) /\ EmHandler(t)
    \/ \E t \in DOMAIN pc : Eager(t) /\ EmCreatedHandler(t)
    \/ \E t \in DOMAIN pc : Eager(t) /\ EmAfter(t)
    \/ \E t \in DOMAIN pc : Eager(t) /\ Em365(t)
    \/ \E t \in DOMAIN pc : Eager(t) /\ EmJs(t)
    \/ \E t \in DOMAIN pc : Eager(t) /\ EmDesc(t)
    \/ \E t \in DOMAIN pc : Eager(t) /\ EmMetrics(t)
    \/ \E t \in DOMAIN pc : Eager(t) /\ EmFinish(t)
    \/ \E t \in DOMAIN pc : Eager(t) /\ EmRaise(t)
    \/ \E t \in Workers : Eager(t) /\ PStart(t)
    \/ \E t \in Workers : Eager(t) /\ PCreated(t)
    \/ \E t \in Workers : Eager(t) /\ PReturn(t)
    \/ \E t \in Workers : Eager(t) /\ PFinally(t)
    \/ Eager(Main) /\ CPoolConsume
    \/ Eager(Main) /\ CPoolExit
    \/ Eager(Main) /\ CSeqLoop
    \/ Eager(Main) /\ CSeqAppend
    \/ Eager(Main) /\ CFinally
    \/ Eager(Main) /\ CFinalSave
    \/ Eager(Main) /\ FLoad

SpecPool == InitPool /\ [][NextPool]_vars

\* --------------------------------------------- the creation gate under load
\* The pool of extract_from_links with several threads at the gate of the one
\* extractor they share: GateUrls URLs, GateThreads pool threads, at most
\* GateFaults incidents.  A thread that can take a step is scheduled in the
\* end, and an acquire of a free lock succeeds: weak fairness of the steps.
GateUrls == 2
GateThreads == 2
GateFaults == 1

InitGate ==
    InitFor("threaded", Distinct(GateUrls), GateThreads, OutFile, GateFaults)

SpecGate == InitGate /\ [][NextPool]_vars /\ WF_vars(NextPool)

\* ------------------------------------------------ the chunk threads joined
\* The chunked mode of main.py on its own: JoinUrls URLs in the chunks of
\* JoinThreads threads, at most JoinFaults incidents, no --finalize.  Every
\* thread that can take a step is scheduled in the end, and thread.join()
\* returns once its thread has ended: weak fairness of the steps.
JoinUrls == 3
JoinThreads == 2
JoinFaults == 2

InitJoin ==
    InitFor("chunked", Distinct(JoinUrls), JoinThreads, OutFile, JoinFaults)

NextJoin ==
    \/ \E t \in DOMAIN pc : Turn(t) /\ CreateDriverEnter(t)
    \/ \E t \in DOMAIN pc : Turn(t) /\ CreateDriverAttempt(t)
    \/ \E t \in DOMAIN pc : Turn(t) /\ EmEntry(t)
    \/ \E t \in DOMAIN pc : Turn(t) /\ EmCheck(t)
    \/ \E t \in DOMAIN pc : Turn(t) /\ EmCreatedEntry(t)
    \/ \E t \in DOMAIN pc : Turn(t) /\ EmLoop(t)
    \/ \E t \in DOMAIN pc : Turn(t) /\ EmCreatedLoop(t)
    \/ \E t \in DOMAIN pc : Turn(t) /\ EmGet(t)
    \/ \E t \in DOMAIN pc : Turn(t) /\ EmPostGet(t)
    \/ \E t \in DOMAIN pc : Turn(t) /\ EmHandler(t)
    \/ \E t \in DOMAIN pc : Turn(t) /\ EmCreatedHandler(t)
    \/ \E t \in DOMAIN pc : Turn(t) /\ EmAfter(t)
    \/ \E t \in DOMAIN pc : Turn(t) /\ Em365(t)
    \/ \E t \in DOMAIN pc : Turn(t) /\ EmJs(t)
    \/ \E t \in DOMAIN pc : Turn(t) /\ EmDesc(t)
    \/ \E t \in DOMAIN pc : Turn(t) /\ EmMetrics(t)
    \/ \E t \in DOMAIN pc : Turn(t) /\ EmFinish(t)
    \/ \E t \in Workers : Turn(t) /\ WStart(t)
    \/ \E t \in Workers : Turn(t) /\ WCreated(t)
    \/ \E t \in Workers : Turn(t) /\ WLoop(t)
    \/ \E t \in Workers : Turn(t) /\ WAppend(t)
    \/ \E t \in Workers : Turn(t) /\ WCleanup(t)
    \/ Turn(Main) /\ MJoin

SpecJoin == InitJoin /\ [][NextJoin]_vars /\ WF_vars(NextJoin)

\* ------------------------------------------- the units checked on their own
\* The state of the crawl while a single function is exercised: no thread of
\* the pool modes is anywhere.
ParkedWith(where, out, links, k, b) ==
    /\ mode = "sequential"
    /\ video_links = links
    /\ num_threads = k
    /\ output_file = out
    /\ pc = [t \in {Main} |-> where]
    /\ loc = [t \in {Main} |-> InitLoc]
    /\ handles = <<>>
    /\ selfDriver = [e \in {Main} |-> NoHandle]
    /\ creationLock = [e \in {Main} |-> None]
    /\ all_metadata = <<>>
    /\ future = <<>>
    /\ processed_count = 0
    /\ completed_count = 0
    /\ partial_writes = 0
    /\ extracted = [t \in {Main} |-> <<>>]
    /\ fin = InitFin
    /\ faults = 0
    /\ budget = b
Parked(where, out, links, k) == ParkedWith(where, out, links, k, 0)

crawl == <<pc, loc, handles, selfDriver, creationLock, pool_minus_disk,
           extracted, faults>>

\* ------------------------------------------------- the chunk loop of main
\* The loop that splits video_links into num_threads chunks (main.py lines
\* 276-286; main of video_metadata_extractor.py lines 1378-1390), on every
\* list of 1 to MaxChunkUrls URLs and every 1 to MaxChunkThreads threads.
MaxChunkUrls == 5
MaxChunkThreads == 4

\* video_links[start:end]: a slice stops at the end of the list.
Slice(links, start, end) ==
    SubSeq(links, Min(start, Len(links)) + 1, Min(end, Len(links)))

RECURSIVE Concat(_)
Concat(seqs) == IF seqs = <<>> THEN <<>> ELSE Head(seqs) \o Concat(Tail(seqs))

InitChunk ==
    /\ \E n \in 1..MaxChunkUrls, k \in 1..MaxChunkThreads :
           \E links \in UrlLists(n) : Parked("unit", OutFile, links, k)
    /\ broken = {}
    /\ disk = [p \in {} |-> <<>>]
    /\ sv = Idle
    /\ torn = {}
    /\ part = [stage |-> "loop", i |-> 0, start_idx |-> 0, chunks |-> <<>>]
    /\ tiers = Idle
    /\ tags = Idle
    /\ lk = Idle
    /\ frame = Idle
    /\ parse = Idle

\* main.py lines 282-286: one iteration of the loop.
ChunkStep ==
    /\ part.stage = "loop"
    /\ part.i < num_threads
    /\ LET current_chunk_size ==
               ChunkSize(Len(video_links), num_threads, part.i)
           end_idx == part.start_idx + current_chunk_size
       IN  part' = [part EXCEPT
                      !.chunks = Append(@, Slice(video_links, part.start_idx,
                                                 end_idx)),
                      !.start_idx = end_idx,
                      !.i = @ + 1]
    /\ UNCHANGED <<cfg, crawl, lk, frame, tags, parse, disk, sv, torn, tiers>>

NextChunk == ChunkStep

SpecChunk == InitChunk /\ [][NextChunk]_vars

\* ------------------------------------------- the tiers of extract_metadata
\* The passes extract_metadata makes over a loaded page for one field of the
\* Record, in the order of the code: the embedded data read by the script
\* (lines 419-466), the description selectors (lines 532-561), the embedded
\* JSON parsed from the page source (lines 571-613), the pattern scan of the
\* page source (lines 644-689) and the visible elements (lines 691-787).
\* A page offers each pass up to MaxCands candidates for the field.
MaxCands == 3
JsDesc == 1001
DomDesc == 1002
MetaDesc == 1003
TierFields == CountFields \cup {"description"}
CandValues(field) == IF field = "like_count" THEN {118, 120} ELSE {900, 950}
Matches(field) ==
    IF field = "description" THEN {<<>>}
    ELSE UNION {[1..n -> CandValues(field)] : n \in 0..MaxCands}
Range(seq) == {seq[i] : i \in DOMAIN seq}

\* int(min(matches, key=int)) for the like count, int(max(...)) for the
\* others.  AggregateMax takes the maximum for every field.
AggregateMax(field, matches) ==
    CHOOSE m \in Range(matches) : \A x \in Range(matches) : m >= x
Aggregate(field, matches) ==
    IF field = "like_count"
    THEN CHOOSE m \in Range(matches) : \A x \in Range(matches) : m <= x
    ELSE CHOOSE m \in Range(matches) : \A x \in Range(matches) : m >= x

\* The page: js and src are the matches of the field's patterns in the
\* embedded data and in the page source, js_desc, dom and meta the
\* description the script, a selector and the page source's meta tag give,
\* video_data the field's entry in the dict find_in_dict returns (<<>>: no
\* such dict, <<None>>: a dict without the key), visible the number of the
\* first matching element.
Pages(field) ==
    [js : Matches(field),
     src : Matches(field),
     js_desc : IF field = "description" THEN {None, JsDesc} ELSE {None},
     dom : IF field = "description" THEN {None, DomDesc} ELSE {None},
     meta : IF field = "description" THEN {None, MetaDesc} ELSE {None},
     video_data : IF field = "description" THEN {<<>>}
                  ELSE {<<>>, <<None>>} \cup {<<v>> : v \in CandValues(field)},
     visible : IF field = "description" THEN {None}
               ELSE {None} \cup CandValues(field)]

InitTiers ==
    /\ Parked("unit", NoFile, <<>>, 1)
    /\ broken = {}
    /\ disk = [p \in {} |-> <<>>]
    /\ sv = Idle
    /\ torn = {}
    /\ part = Idle
    /\ \E field \in TierFields : \E page \in Pages(field) :
           tiers = [stage |-> "js", field |-> field, page |-> page,
                    value |-> None, trail |-> <<>>]
    /\ tags = Idle
    /\ lk = Idle
    /\ frame = Idle
    /\ parse = Idle

\* The pass is over: the field's value goes on to the next pass.
Passed(tr, value, next) ==
    [tr EXCEPT !.value = value, !.trail = Append(@, value), !.stage = next]

\* Lines 404-417 and 419-466: the data the script returned.
TierJs ==
    /\ tiers.stage = "js"
    /\ LET f == tiers.field
           page == tiers.page
           value == CASE f = "description" -> page.js_desc
                      [] page.js # <<>> -> Aggregate(f, page.js)
                      [] OTHER -> tiers.value
       IN  tiers' = Passed(tiers, value, "dom")
    /\ UNCHANGED <<cfg, crawl, lk, frame, tags, parse, disk, sv, torn, part>>

\* Lines 532-561: the first selector that yields text sets the description;
\* the page source's meta tag is read when there is still none.
TierDom ==
    /\ tiers.stage = "dom"
    /\ LET f == tiers.field
           page == tiers.page
           value == CASE f # "description" -> tiers.value
                      [] page.dom # None -> page.dom
                      [] tiers.value = None -> page.meta
                      [] OTHER -> tiers.value
       IN  tiers' = Passed(tiers, value, "structured")
    /\ UNCHANGED <<cfg, crawl, lk, frame, tags, parse, disk, sv, torn, part>>

\* Lines 571-613: the counts are assigned from the dict find_in_dict found.
TierStructured ==
    /\ tiers.stage = "structured"
    /\ LET page == tiers.page
           value == IF page.video_data # <<>>
                    THEN page.video_data[1] ELSE tiers.value
       IN  tiers' = Passed(tiers, value, "regex")
    /\ UNCHANGED <<cfg, crawl, lk, frame, tags, parse, disk, sv, torn, part>>

\* Lines 644-689: the pattern scan fills a count that is still empty.
TierRegex ==
    /\ tiers.stage = "regex"
    /\ LET f == tiers.field
           page == tiers.page
           value == IF tiers.value = None /\ page.src # <<>>
                    THEN Aggregate(f, page.src) ELSE tiers.value
       IN  tiers' = Passed(tiers, value, "visible")
    /\ UNCHANGED <<cfg, crawl, lk, frame, tags, parse, disk, sv, torn, part>>

\* Lines 691-787: the visible elements fill a count that is still empty.
TierVisible ==
    /\ tiers.stage = "visible"
    /\ LET page == tiers.page
           value == IF tiers.value = None THEN page.visible ELSE tiers.value
       IN  tiers' = Passed(tiers, value, "done")
    /\ UNCHANGED <<cfg, crawl, lk, frame, tags, parse, disk, sv, torn, part>>

NextTiers ==
    \/ TierJs
    \/ TierDom
    \/ TierStructured
    \/ TierRegex
    \/ TierVisible

SpecTiers == InitTiers /\ [][NextTiers]_vars

\* ------------------------------------- finalize_and_retry_errors on its own
\* The Finalizer run on a path (main of video_metadata_extractor.py, lines
\* 1335-1347: --finalize --output), FinRuns times in a row.  The path holds
\* nothing, a partly written file, or a document of up to MaxFinLen Records
\* over FinUrls URLs, each Record errored or clean, or errored with no URL.  Extraction is
\* deterministic: the page of a URL in broken fails to load every time, every
\* other page loads, and nothing else fails.
MaxFinLen == 2
FinUrls == 2
FinRuns == 2

CleanRecord(url) ==
    [WithCounts(EmptyMetadata(url)) EXCEPT !.description = PageDescription(url)]
FinRecords ==
    {ErrorRecord(None, MsgUnknown)} \cup
    UNION {{ErrorRecord(100 * u, MsgUnknown), CleanRecord(100 * u)} :
              u \in 1..FinUrls}
FinDocs == UNION {[1..n -> FinRecords] : n \in 0..MaxFinLen}

InitFinalizeWith(b) ==
    /\ ParkedWith("c_returned", OutFile, <<>>, 1, b)
    /\ broken \in SUBSET {100 * u : u \in 1..FinUrls}
    /\ \E file \in {"missing", "torn", "document"} :
        /\ disk \in IF file = "missing" THEN {[p \in {} |-> <<>>]}
                    ELSE {OutFile :> Document(d) : d \in FinDocs}
        /\ torn = IF file = "torn" THEN {OutFile} ELSE {}
        /\ file = "torn" => disk[OutFile].videos = <<>>
    /\ sv = Idle
    /\ part = Idle
    /\ tiers = Idle
    /\ tags = Idle
    /\ lk = Idle
    /\ frame = Idle
    /\ parse = Idle
InitFinalize == InitFinalizeWith(0)

\* The caller runs the Finalizer again on the same path, in a new process.
FAgain ==
    /\ pc[Main] = "done"
    /\ fin.result # <<>>
    /\ fin.run < FinRuns
    /\ fin' = [InitFin EXCEPT !.run = fin.run + 1, !.first = fin.result]
    /\ pc' = [pc EXCEPT ![Main] = "c_returned"]
    /\ extracted' = [extracted EXCEPT ![Main] = <<>>]
    /\ UNCHANGED <<cfg, units, loc, handles, selfDriver, creationLock,
                   all_metadata, future, processed_count, completed_count,
                   disk, partial_writes, faults>>

NextFin ==
    \/ EmEntry(Main)
    \/ EmCheck(Main)
    \/ EmLoop(Main)
    \/ EmGet(Main)
    \/ EmPostGet(Main)
    \/ EmHandler(Main)
    \/ EmAfter(Main)
    \/ Em365(Main)
    \/ EmJs(Main)
    \/ EmDesc(Main)
    \/ EmMetrics(Main)
    \/ EmFinish(Main)
    \/ FLoad
    \/ FLoop
    \/ FRetried
    \/ FFinally
    \/ FSave
    \/ FAgain

SpecFin == InitFinalize /\ [][NextFin]_vars

\* The Finalizer run once on such a path while the environment causes up to
\* RetryFaults incidents: the session may die, setup_driver may raise inside
\* extract_metadata, the save may fail.
RetryFaults == 2

InitRetry == InitFinalizeWith(RetryFaults)

NextRetry ==
    \/ EmEntry(Main)
    \/ EmCheck(Main)
    \/ EmLoop(Main)
    \/ EmGet(Main)
    \/ EmPostGet(Main)
    \/ EmHandler(Main)
    \/ EmAfter(Main)
    \/ Em365(Main)
    \/ EmJs(Main)
    \/ EmDesc(Main)
    \/ EmMetrics(Main)
    \/ EmFinish(Main)
    \/ EmRaise(Main)
    \/ FLoad
    \/ FLoop
    \/ FRetried
    \/ FFinally
    \/ FSave

SpecRetry == InitRetry /\ [][NextRetry]_vars

\* -------------------------------------------------- save_results, in steps
\* save_results called MaxSaves times in a row on a file system that starts
\* empty, with lists of up to MaxSaveLen Records, on the paths of SavePaths,
\* as a partial or as a final save.  Every step may fail, and the process may
\* be killed between any two steps.
MaxSaves == 2
MaxSaveLen == 2
SavePaths == {OutFile, <<"out">>, <<"out", ".txt">>,
              <<"run", ".json", "/", "out", ".json">>}
SaveRecords ==
    [i \in 1..MaxSaveLen |->
        IF i % 2 = 1 THEN ErrorRecord(100 * i, MsgUnknown)
        ELSE WithCounts(EmptyMetadata(100 * i))]
SaveLists == {SubSeq(SaveRecords, 1, n) : n \in 0..MaxSaveLen}

\* Line 1062: temp_file = file_path + '.tmp'.  TempPathTarget is a save that
\* writes the target itself.
TempPathTarget(file_path) == file_path
TempPath(file_path) == file_path \o <<".tmp">>

\* What a reader finds at a path: nothing, or one document.
Content(d, p) == IF p \in DOMAIN d THEN <<d[p]>> ELSE <<>>

\* Lines 1073-1075: os.remove(temp_file) when the file is there.  The removal
\* of the file the call has just written is taken to succeed.
Kept(d, p) == d
Removed(d, p) == [q \in DOMAIN d \ {p} |-> d[q]]

InitSave ==
    /\ Parked("unit", NoFile, <<>>, 1)
    /\ broken = {}
    /\ disk = [p \in {} |-> <<>>]
    /\ torn = {}
    /\ sv = [stage |-> "idle", calls |-> 0]
    /\ part = Idle
    /\ tiers = Idle
    /\ tags = Idle
    /\ lk = Idle
    /\ frame = Idle
    /\ parse = Idle

\* Lines 1022-1062: the call; the path, the document and the temporary path
\* are computed.  before is what the target held when the call was made.
SaveCall ==
    /\ sv.stage \in {"idle", "returned", "raised"}
    /\ sv.calls < MaxSaves
    /\ \E metadata \in SaveLists, out \in SavePaths, partial \in BOOLEAN :
        LET file_path == SavePath(out, partial)
        IN  sv' = [stage |-> "open", calls |-> sv.calls + 1,
                   output_file |-> out, partial |-> partial,
                   file_path |-> file_path,
                   temp_file |-> TempPath(file_path),
                   result |-> Document(metadata),
                   before |-> Content(disk, file_path)]
    /\ UNCHANGED <<cfg, crawl, lk, frame, tags, parse, disk, torn, part, tiers>>

\* Line 1064: open(temp_file, 'w') creates or truncates the temporary file.
SaveOpen ==
    /\ sv.stage = "open"
    /\ \E o \in {"ok", "failed"} :
        IF o = "ok"
        THEN /\ disk' = (sv.temp_file :> Document(<<>>)) @@ disk
             /\ torn' = torn \cup {sv.temp_file}
             /\ sv' = [sv EXCEPT !.stage = "dump"]
        ELSE /\ sv' = [sv EXCEPT !.stage = "except"]
             /\ UNCHANGED <<disk, torn>>
    /\ UNCHANGED <<cfg, crawl, lk, frame, tags, parse, part, tiers>>

\* Line 1065: json.dump writes the document; when it fails the file stays
\* partly written.
SaveDump ==
    /\ sv.stage = "dump"
    /\ \E o \in {"ok", "failed"} :
        IF o = "ok"
        THEN /\ disk' = (sv.temp_file :> sv.result) @@ disk
             /\ torn' = torn \ {sv.temp_file}
             /\ sv' = [sv EXCEPT !.stage = "rename"]
        ELSE /\ sv' = [sv EXCEPT !.stage = "except"]
             /\ UNCHANGED <<disk, torn>>
    /\ UNCHANGED <<cfg, crawl, lk, frame, tags, parse, part, tiers>>

\* Lines 1067-1070: os.replace / os.rename moves the temporary file onto the
\* target in one step.
SaveRename ==
    /\ sv.stage = "rename"
    /\ \E o \in {"ok", "failed"} :
        IF o = "ok"
        THEN /\ disk' = (sv.file_path :> disk[sv.temp_file])
                            @@ Removed(disk, sv.temp_file)
             /\ torn' = (torn \ {sv.temp_file, sv.file_path})
                            \cup (IF sv.temp_file \in torn
                                  THEN {sv.file_path} ELSE {})
             /\ sv' = [sv EXCEPT !.stage = "returned"]
        ELSE /\ sv' = [sv EXCEPT !.stage = "except"]
             /\ UNCHANGED <<disk, torn>>
    /\ UNCHANGED <<cfg, crawl, lk, frame, tags, parse, part, tiers>>

\* Lines 1071-1078: the except clause removes the temporary file and raises.
SaveExcept ==
    /\ sv.stage = "except"
    /\ disk' = Removed(disk, sv.temp_file)
    /\ torn' = torn \ {sv.temp_file}
    /\ sv' = [sv EXCEPT !.stage = "raised"]
    /\ UNCHANGED <<cfg, crawl, lk, frame, tags, parse, part, tiers>>

\* The process is killed inside the call: the files stay as they are.
SaveCrash ==
    /\ sv.stage \in {"open", "dump", "rename", "except"}
    /\ sv' = [sv EXCEPT !.stage = "crashed"]
    /\ UNCHANGED <<cfg, crawl, lk, frame, tags, parse, disk, torn, part, tiers>>

NextSave ==
    \/ SaveCall
    \/ SaveOpen
    \/ SaveDump
    \/ SaveRename
    \/ SaveExcept
    \/ SaveCrash

SpecSave == InitSave /\ [][NextSave]_vars

\* ------------------------------------------------ the hashtags of a Record
\* A text is a sequence of characters.  Ascii lists the characters a text is
\* made of in code-point order, which is the order sorted() compares by.
MaxTextLen == 4

Ascii == <<" ", "!", "#",
           "0", "1", "2", "3", "4", "5", "6", "7", "8", "9",
           "A", "B", "C", "D", "E", "F", "G", "H", "I", "J", "K", "L", "M",
           "N", "O", "P", "Q", "R", "S", "T", "U", "V", "W", "X", "Y", "Z",
           "_",
           "a", "b", "c", "d", "e", "f", "g", "h", "i", "j", "k", "l", "m",
           "n", "o", "p", "q", "r", "s", "t", "u", "v", "w", "x", "y", "z">>

Ord(c) == CHOOSE i \in 1..Len(Ascii) : Ascii[i] = c
Digits == {Ascii[i] : i \in 4..13}
UpperCase == {Ascii[i] : i \in 14..39}
LowerCase == {Ascii[i] : i \in 41..66}

\* str.lower(), character by character
LowerKeep(c) == c
Lower(c) == IF c \in UpperCase THEN Ascii[Ord(c) + 27] ELSE c
LowerText(text) == [i \in 1..Len(text) |-> Lower(text[i])]

\* the class [A-Za-z0-9_] of the pattern
IsTagChar(c) == c \in Digits \cup UpperCase \cup LowerCase \cup {"_"}

\* the longest run of [A-Za-z0-9_] a text starts with
RECURSIVE TagRun(_)
TagRun(text) ==
    IF text = <<>> \/ ~IsTagChar(text[1]) THEN <<>>
    ELSE <<text[1]>> \o TagRun(Tail(text))

\* re.findall(r'#([A-Za-z0-9_]+)', text): the groups, left to right
RECURSIVE FindAll(_)
FindAll(text) ==
    IF text = <<>> THEN <<>>
    ELSE IF text[1] = "#" /\ TagRun(Tail(text)) # <<>>
    THEN LET run == TagRun(Tail(text))
         IN  <<run>> \o FindAll(SubSeq(text, Len(run) + 2, Len(text)))
    ELSE FindAll(Tail(text))

\* str.strip(): blanks off both ends
RECURSIVE LStripChar(_, _)
LStripChar(text, c) ==
    IF text # <<>> /\ text[1] = c THEN LStripChar(Tail(text), c) ELSE text
RECURSIVE RStripChar(_, _)
RStripChar(text, c) ==
    IF text # <<>> /\ text[Len(text)] = c
    THEN RStripChar(SubSeq(text, 1, Len(text) - 1), c) ELSE text
Strip(text) == RStripChar(LStripChar(text, " "), " ")

\* _extract_hashtags_from_text: the set the returned list is made from
ExtractHashtags(text) ==
    IF text = <<>> THEN {}
    ELSE {LowerText(Strip(m)) : m \in Range(FindAll(text))} \ {<<>>}

\* _add_hashtags_from_text on the closure's set
AddHashtags(found, text) == found \cup ExtractHashtags(text)

\* str < str: by code point, the shorter of a prefix pair first
RECURSIVE LexLess(_, _)
LexLess(a, b) ==
    IF b = <<>> THEN FALSE
    ELSE IF a = <<>> THEN TRUE
    ELSE IF a[1] = b[1] THEN LexLess(Tail(a), Tail(b))
    ELSE Ord(a[1]) < Ord(b[1])

\* sorted(hashtags_found)
RECURSIVE SortedList(_)
SortedList(S) ==
    IF S = {} THEN <<>>
    ELSE LET m == CHOOSE x \in S : \A y \in S \ {x} : LexLess(x, y)
         IN  <<m>> \o SortedList(S \ {m})

\* the hashtag loop of save_results: '#' off the front, lowercase, the first
\* occurrence of each tag kept
\* Line 1049: tag.lstrip('#').lower()
CleanTagOnce(tag) ==
    LowerText(IF tag # <<>> /\ tag[1] = "#" THEN Tail(tag) ELSE tag)
CleanTag(tag) == LowerText(LStripChar(tag, "#"))

RECURSIVE Cleaned(_, _)
Cleaned(hashtags, seen) ==
    IF hashtags = <<>> THEN <<>>
    ELSE LET cleaned_tag == CleanTag(hashtags[1])
         IN  IF cleaned_tag # <<>> /\ cleaned_tag \notin seen
             THEN <<cleaned_tag>> \o Cleaned(Tail(hashtags), seen \cup {cleaned_tag})
             ELSE Cleaned(Tail(hashtags), seen)

TagAlphabet == {"#", "A", "a", "b", "_", " "}
RECURSIVE TextsOf(_)
TextsOf(n) ==
    IF n = 0 THEN {<<>>}
    ELSE TextsOf(n - 1) \cup
         {<<c>> \o w : c \in TagAlphabet, w \in {x \in TextsOf(n - 1) : Len(x) = n - 1}}
GreatDay == <<"G", "r", "e", "a", "t", " ", "d", "a", "y", " ",
              "#", "F", "u", "n", " ", "#", "f", "u", "n", " ",
              "#", "F", "U", "N", "!">>
Descriptions == TextsOf(MaxTextLen) \cup {GreatDay}
Titles == {<<>>, <<"#", "b">>, <<"#", "A", "1">>}

InitTags ==
    /\ Parked("unit", NoFile, <<>>, 1)
    /\ broken = {}
    /\ disk = [p \in {} |-> <<>>]
    /\ sv = Idle
    /\ torn = {}
    /\ part = Idle
    /\ tiers = Idle
    /\ parse = Idle
    /\ lk = Idle
    /\ frame = Idle
    /\ \E title_val \in Titles, desc_val \in Descriptions :
           tags = [stage |-> "js", title_val |-> title_val,
                   desc_val |-> desc_val, description |-> <<>>,
                   hashtags_found |-> {}, hashtags |-> <<>>]

\* the meta tags of the page: both texts are searched, the description kept
TagJs ==
    /\ tags.stage = "js"
    /\ tags' = [tags EXCEPT
           !.stage = "extracted",
           !.description = tags.desc_val,
           !.hashtags_found =
               AddHashtags(AddHashtags(tags.hashtags_found, tags.title_val),
                           tags.desc_val)]
    /\ UNCHANGED <<cfg, crawl, lk, frame, disk, sv, torn, part, tiers, parse>>

\* the end of extract_metadata: the description searched once more, then
\* the set sorted into the Record
TagRecord ==
    /\ tags.stage = "extracted"
    /\ LET found == IF tags.description # <<>>
                    THEN AddHashtags(tags.hashtags_found, tags.description)
                    ELSE tags.hashtags_found
       IN  tags' = [tags EXCEPT !.stage = "recorded",
                                !.hashtags_found = found,
                                !.hashtags = SortedList(found)]
    /\ UNCHANGED <<cfg, crawl, lk, frame, disk, sv, torn, part, tiers, parse>>

\* save_results on the Record
TagSave ==
    /\ tags.stage = "recorded"
    /\ tags' = [tags EXCEPT !.stage = "saved",
                            !.hashtags = Cleaned(tags.hashtags, {})]
    /\ UNCHANGED <<cfg, crawl, lk, frame, disk, sv, torn, part, tiers, parse>>

NextTags == TagJs \/ TagRecord \/ TagSave
SpecTags == InitTags /\ [][NextTags]_vars

\* ------------------------------------------------------------- parse_count
\* A natural number of any size is a sequence of limbs, lowest first, with
\* no zero at the high end; Python's int has no width.  A float is the
\* IEEE-754 double: mant * 2^exp with mant of MantBits bits, or mant = <<>>
\* for 0.0.
MaxCountLen == 4
LimbBits == 10
MantBits == 53

RECURSIVE Pow2(_)
Pow2(n) == IF n = 0 THEN 1 ELSE 2 * Pow2(n - 1)
Limb == Pow2(LimbBits)

RECURSIVE Pow10(_)
Pow10(n) == IF n = 0 THEN 1 ELSE 10 * Pow10(n - 1)

RECURSIVE Norm(_)
Norm(a) ==
    IF a # <<>> /\ a[Len(a)] = 0 THEN Norm(SubSeq(a, 1, Len(a) - 1)) ELSE a

\* a * k + carry for a small k
RECURSIVE MulSmall(_, _, _)
MulSmall(a, k, carry) ==
    IF a = <<>>
    THEN IF carry = 0 THEN <<>>
         ELSE <<carry % Limb>> \o MulSmall(<<>>, k, carry \div Limb)
    ELSE LET p == a[1] * k + carry
         IN  <<p % Limb>> \o MulSmall(Tail(a), k, p \div Limb)

\* quotient and remainder of a by a small k
RECURSIVE DivModRaw(_, _)
DivModRaw(a, k) ==
    IF a = <<>> THEN [q |-> <<>>, r |-> 0]
    ELSE LET hi  == DivModRaw(Tail(a), k)
             cur == hi.r * Limb + a[1]
         IN  [q |-> <<cur \div k>> \o hi.q, r |-> cur % k]
DivMod(a, k) == LET d == DivModRaw(a, k) IN [q |-> Norm(d.q), r |-> d.r]

\* a >= 2^n
AtLeastPow2(a, n) ==
    LET l == n \div LimbBits + 1
    IN  Len(a) > l \/ (Len(a) = l /\ a[l] >= Pow2(n % LimbBits))

IsOdd(a) == a # <<>> /\ a[1] % 2 = 1

\* the digits of a text as a number, and a number as decimal digits
DigitValue(c) == Ord(c) - Ord("0")
RECURSIVE BigOfDigits(_, _)
BigOfDigits(text, acc) ==
    IF text = <<>> THEN acc
    ELSE BigOfDigits(Tail(text), MulSmall(acc, 10, DigitValue(text[1])))
RECURSIVE DigitsOfBig(_)
DigitsOfBig(a) ==
    IF a = <<>> THEN <<>>
    ELSE LET d == DivMod(a, 10)
         IN  DigitsOfBig(d.q) \o <<Ascii[Ord("0") + d.r]>>
Decimal(a) == IF a = <<>> THEN <<"0">> ELSE DigitsOfBig(a)

\* round to nearest, ties to even, on the bit shifted out last (guard) and
\* the bits shifted out before it (sticky)
RoundEven(mant, exp, guard, sticky) ==
    LET up == guard = 1 /\ (sticky \/ IsOdd(mant))
        m  == IF up THEN MulSmall(mant, 1, 1) ELSE mant
    IN  IF AtLeastPow2(m, MantBits)
        THEN [mant |-> DivMod(m, 2).q, exp |-> exp + 1]
        ELSE [mant |-> m, exp |-> exp]

\* float(text) for digits [ '.' digits ]: the double nearest num / 10^places
RECURSIVE ScaleUp(_, _, _)
ScaleUp(num, den, exp) ==
    IF AtLeastPow2(DivMod(num, den).q, MantBits - 1) THEN [num |-> num, exp |-> exp]
    ELSE ScaleUp(MulSmall(num, 2, 0), den, exp - 1)
RECURSIVE ScaleDown(_, _, _, _)
ScaleDown(mant, exp, guard, sticky) ==
    IF ~AtLeastPow2(mant, MantBits)
    THEN RoundEven(mant, exp, guard, sticky)
    ELSE LET h == DivMod(mant, 2)
         IN  ScaleDown(h.q, exp + 1, h.r, sticky \/ guard = 1)
NearestDouble(num, places) ==
    IF num = <<>> THEN [mant |-> <<>>, exp |-> 0]
    ELSE LET den == Pow10(places)
             up  == ScaleUp(num, den, 0)
             d   == DivMod(up.num, den)
             two == 2 * d.r
         IN  IF up.exp < 0
             THEN RoundEven(d.q, up.exp, IF two >= den THEN 1 ELSE 0, two # den)
             ELSE ScaleDown(d.q, 0, 0, d.r # 0)

\* float * 1000, * 1000000, * 1000000000: the exact product, rounded once
RECURSIVE TimesPow1000(_, _)
TimesPow1000(a, n) ==
    IF n = 0 THEN a ELSE TimesPow1000(MulSmall(a, 1000, 0), n - 1)
Times(x, thousands) ==
    IF x.mant = <<>> THEN x
    ELSE ScaleDown(TimesPow1000(x.mant, thousands), x.exp, 0, FALSE)

\* int(float): the fraction dropped
RECURSIVE Shift(_, _)
Shift(a, exp) ==
    IF exp = 0 \/ a = <<>> THEN a
    ELSE IF exp > 0 THEN Shift(MulSmall(a, 2, 0), exp - 1)
    ELSE Shift(DivMod(a, 2).q, exp + 1)
IntOf(x) == Shift(x.mant, x.exp)

\* str.upper(), and str.replace(letter, '')
UpperText(text) ==
    [i \in 1..Len(text) |->
        IF text[i] \in LowerCase THEN Ascii[Ord(text[i]) - 27] ELSE text[i]]
Without(text, letter) == SelectSeq(text, LAMBDA c : c # letter)
Contains(text, letter) == \E i \in 1..Len(text) : text[i] = letter

\* what float() accepts of the texts of CountAlphabet: digits with at most
\* one '.', a digit on at least one side of it, blanks around
IsFloatText(text) ==
    LET t == Strip(text)
    IN  /\ \A i \in 1..Len(t) : t[i] \in Digits \cup {"."}
        /\ Cardinality({i \in 1..Len(t) : t[i] = "."}) <= 1
        /\ \E i \in 1..Len(t) : t[i] \in Digits
FloatOf(text) ==
    LET t      == Strip(text)
        dot    == IF Contains(t, ".") THEN CHOOSE i \in 1..Len(t) : t[i] = "."
                  ELSE Len(t) + 1
    IN  NearestDouble(BigOfDigits(Without(t, "."), <<>>), Len(t) - Min(dot, Len(t)))

\* the branch parse_count takes: the letter it removes and the thousands it
\* multiplies by
Suffixes == <<"K", "M", "B">>
Branch(count_str) ==
    IF Contains(count_str, "K") THEN 1
    ELSE IF Contains(count_str, "M") THEN 2
    ELSE IF Contains(count_str, "B") THEN 3
    ELSE 0

CountAlphabet == {"1", "2", "3", "4", "5", ".", "K", "M", "B", "k", " "}
RECURSIVE CountTexts(_)
CountTexts(n) ==
    IF n = 0 THEN {<<>>}
    ELSE CountTexts(n - 1) \cup
         {<<c>> \o w : c \in CountAlphabet,
                       w \in {x \in CountTexts(n - 1) : Len(x) = n - 1}}

InitParse ==
    /\ Parked("unit", NoFile, <<>>, 1)
    /\ broken = {}
    /\ disk = [p \in {} |-> <<>>]
    /\ sv = Idle
    /\ torn = {}
    /\ part = Idle
    /\ tiers = Idle
    /\ tags = Idle
    /\ lk = Idle
    /\ frame = Idle
    /\ \E text \in CountTexts(MaxCountLen) :
           parse = [stage |-> "call", arg |-> text, count_str |-> text,
                    thousands |-> 0, x |-> None, result |-> None]

\* count_str.upper().strip() and the choice of the branch
ParseUpper ==
    /\ parse.stage = "call"
    /\ LET count_str == Strip(UpperText(parse.count_str))
           b == Branch(count_str)
       IN  parse' = [parse EXCEPT
               !.stage = "float",
               !.thousands = b,
               !.count_str = IF b = 0 THEN count_str
                             ELSE Without(count_str, Suffixes[b])]
    /\ UNCHANGED <<cfg, crawl, lk, frame, disk, sv, torn, part, tiers, tags>>

\* float(...): a text that is no number raises, and the bare except
\* returns None
ParseFloat ==
    /\ parse.stage = "float"
    /\ IF IsFloatText(parse.count_str)
       THEN parse' = [parse EXCEPT !.stage = "scale",
                                   !.x = FloatOf(parse.count_str)]
       ELSE parse' = [parse EXCEPT !.stage = "done", !.result = None]
    /\ UNCHANGED <<cfg, crawl, lk, frame, disk, sv, torn, part, tiers, tags>>

\* int(x * 1000 ...), or int(x) for a text without a letter
ParseScale ==
    /\ parse.stage = "scale"
    /\ parse' = [parse EXCEPT
           !.stage = "done",
           !.result = Decimal(IntOf(Times(parse.x, parse.thousands)))]
    /\ UNCHANGED <<cfg, crawl, lk, frame, disk, sv, torn, part, tiers, tags>>

NextParse == ParseUpper \/ ParseFloat \/ ParseScale
SpecParse == InitParse /\ [][NextParse]_vars

\* ------------------------------------------------- the username of a Record
\* The URL, an href and an element's text are texts; the page gives the
\* "uniqueId" matches of its embedded data and, for each of the four
\* username selectors, the elements the selector finds.
MaxUrlLen == 3

\* Python's None where a text is expected
NoText == <<"None">>

\* re.search(r'@([^/]+)', text): the group of the leftmost match, or None
RECURSIVE SegmentRun(_)
SegmentRun(text) ==
    IF text = <<>> \/ text[1] = "/" THEN <<>>
    ELSE <<text[1]>> \o SegmentRun(Tail(text))
RECURSIVE SearchAt(_)
SearchAt(text) ==
    IF text = <<>> THEN NoText
    ELSE IF text[1] = "@" /\ SegmentRun(Tail(text)) # <<>>
    THEN SegmentRun(Tail(text))
    ELSE SearchAt(Tail(text))

\* '/@' in href
HasSlashAt(href) ==
    \E i \in 1..Len(href) - 1 : href[i] = "/" /\ href[i + 1] = "@"

\* Python's truth value of a username
Truthy(name) == name # NoText /\ name # <<>>

\* the loop over the elements of one selector: the username it leaves
RECURSIVE FromElements(_, _)
FromElements(elems, username) ==
    IF elems = <<>> THEN username
    ELSE LET elem == elems[1]
             text == Strip(elem.text)
         IN  IF elem.href # NoText /\ HasSlashAt(elem.href)
                /\ SearchAt(elem.href) # NoText
             THEN SearchAt(elem.href)
             ELSE IF text # <<>> /\ text[1] = "@"
             THEN Strip(Without(text, "@"))
             ELSE FromElements(Tail(elems), username)

\* the loop over username_selectors
RECURSIVE FromSelectors(_, _, _)
FromSelectors(found, alive, username) ==
    IF found = <<>> \/ ~alive THEN username
    ELSE LET u == FromElements(found[1], username)
         IN  IF Truthy(u) THEN u ELSE FromSelectors(Tail(found), alive, u)

SetUnlessFound(username, name) == IF Truthy(username) THEN username ELSE name
SetAlways(username, name) == name

UrlAlphabet == {"@", "/", "u"}
RECURSIVE UrlTexts(_)
UrlTexts(n) ==
    IF n = 0 THEN {<<>>}
    ELSE UrlTexts(n - 1) \cup
         {<<c>> \o w : c \in UrlAlphabet, w \in {x \in UrlTexts(n - 1) : Len(x) = n - 1}}
HrefElem == [href |-> <<"/", "@", "d">>, text |-> <<>>]
TextElem == [href |-> NoText, text |-> <<"@", "t", " ">>]
BareElem == [href |-> <<"/", "@", "/">>, text |-> <<"@">>]
ElementLists == {<<>>, <<HrefElem>>, <<TextElem>>, <<BareElem, HrefElem>>}
UsernameSelectors == 4
UserPages ==
    [uniqueId : {<<>>, << <<"j", "s">> >>, << <<"j", "s">>, <<"k">> >>},
     found : [1..UsernameSelectors -> ElementLists],
     alive : BOOLEAN]

InitUser ==
    /\ Parked("unit", NoFile, <<>>, 1)
    /\ broken = {}
    /\ disk = [p \in {} |-> <<>>]
    /\ sv = Idle
    /\ torn = {}
    /\ part = Idle
    /\ tags = Idle
    /\ lk = Idle
    /\ frame = Idle
    /\ parse = Idle
    /\ \E video_url \in UrlTexts(MaxUrlLen), page \in UserPages :
           tiers = [stage |-> "u_js", video_url |-> video_url, page |-> page,
                    username |-> NoText, trail |-> <<>>]

\* the embedded data: the first "uniqueId" match, whatever the URL says
UserJs ==
    /\ tiers.stage = "u_js"
    /\ tiers' = [tiers EXCEPT
           !.stage = "u_url",
           !.username = IF tiers.page.uniqueId # <<>>
                        THEN tiers.page.uniqueId[1] ELSE @,
           !.trail = IF tiers.page.uniqueId # <<>> THEN @ \o <<"js">> ELSE @]
    /\ UNCHANGED <<cfg, crawl, lk, frame, disk, sv, torn, part, tags, parse>>

\* the URL: a match replaces what the embedded data gave
UserUrl ==
    /\ tiers.stage = "u_url"
    /\ LET name == SearchAt(tiers.video_url)
       IN  tiers' = [tiers EXCEPT
               !.stage = "u_page",
               !.username = IF name # NoText THEN SetAlways(@, name) ELSE @,
               !.trail = IF name # NoText THEN @ \o <<"url">> ELSE @]
    /\ UNCHANGED <<cfg, crawl, lk, frame, disk, sv, torn, part, tags, parse>>

\* the page: searched only while the username is empty
UserPage ==
    /\ tiers.stage = "u_page"
    /\ IF Truthy(tiers.username)
       THEN tiers' = [tiers EXCEPT !.stage = "u_done"]
       ELSE LET u == FromSelectors(tiers.page.found, tiers.page.alive,
                                   tiers.username)
            IN  tiers' = [tiers EXCEPT
                    !.stage = "u_done",
                    !.username = u,
                    !.trail = IF u # tiers.username THEN @ \o <<"page">> ELSE @]
    /\ UNCHANGED <<cfg, crawl, lk, frame, disk, sv, torn, part, tags, parse>>

NextUser == UserJs \/ UserUrl \/ UserPage
SpecUser == InitUser /\ [][NextUser]_vars

\* ------------------------------------------ the locks of extract_from_links
\* The threaded branch of extract_from_links seen from its locks.  The
\* caller (thread Main) runs the as_completed loop, the sequential loop after
\* it and the final saves; LockThreads executor threads run
\* _process_single_video on LockUrls queued URLs, and extract_metadata calls
\* _create_driver again up to LockRecreations times per URL.  lk.holder[l] is
\* the thread that holds lock l (a threading.Lock, not reentrant), lk.writes
\* the number of save_results calls entered and not ended.  Every thread that
\* can take a step is scheduled in the end: weak fairness of the steps.
LockUrls == 11
LockThreads == 2
LockRecreations == 1

\* Lines 52-54: the three locks of an extractor.
Locks == {"_progress_lock", "_file_save_lock", "_driver_creation_lock"}

\* The with statement a thread stands in front of (lines 113, 839, 853, 959,
\* 968, 991), and where it stands once it is inside.
WantsLock ==
    [w_gate |-> "_driver_creation_lock", w_regate |-> "_driver_creation_lock",
     w_count |-> "_progress_lock", w_except |-> "_progress_lock",
     c_progress |-> "_progress_lock", c_save_lock |-> "_file_save_lock",
     c_except |-> "_progress_lock"]
Inside ==
    [w_gate |-> "w_creating", w_regate |-> "w_recreating",
     w_count |-> "w_counting", w_except |-> "w_counting",
     c_progress |-> "c_counting", c_save_lock |-> "c_save",
     c_except |-> "c_recounting"]

\* A with statement releases its lock when the block is left, by its end or
\* by an exception.
ReleaseNever(holder, l) == holder
Release(holder, l) == [holder EXCEPT ![l] = None]

\* save_results is an ordinary call: it has ended when its caller goes on.
SaveDetached(writes) == writes
SaveEnded(writes) == writes - 1

\* The places save_results is called from: lines 971, 1006, 1017, 1018.
SaveSites == {"c_save", "s_save", "final1", "final2"}

InitLocks ==
    /\ Parked("unit", NoFile, <<>>, 1)
    /\ broken = {}
    /\ disk = [p \in {} |-> <<>>]
    /\ sv = Idle
    /\ torn = {}
    /\ part = Idle
    /\ tiers = Idle
    /\ tags = Idle
    /\ parse = Idle
    /\ frame = Idle
    /\ \E out \in BOOLEAN :
        lk = [stage |-> "run", output_file |-> out,
              at |-> [t \in 0..LockThreads |->
                         IF t = Main THEN "c_loop" ELSE "idle"],
              holder |-> [l \in Locks |-> None],
              writes |-> 0, site |-> "none",
              queued |-> LockUrls, ready |-> 0, yielded |-> 0,
              processed_count |-> 0, completed_count |-> 0,
              recreated |-> [t \in 1..LockThreads |-> 0],
              i |-> 0, raising |-> FALSE]

LocksOnly ==
    UNCHANGED <<cfg, crawl, frame, disk, sv, torn, part, tiers, tags, parse>>

\* Lines 941-947: an executor thread takes the next submitted task.
TaskStart(t) ==
    /\ lk.at[t] = "idle"
    /\ lk.queued > 0
    /\ lk' = [lk EXCEPT !.at[t] = "w_gate", !.queued = @ - 1,
                        !.recreated[t] = 0]
    /\ LocksOnly

\* A thread enters a with statement: it waits until the lock is free.
LkAcquire(t) ==
    /\ lk.at[t] \in DOMAIN WantsLock
    /\ lk.holder[WantsLock[lk.at[t]]] = None
    /\ lk' = [lk EXCEPT !.holder[WantsLock[lk.at[t]]] = t,
                        !.at[t] = Inside[lk.at[t]]]
    /\ LocksOnly

\* Lines 113-204: _create_driver returns or raises and leaves the gate.  The
\* call of line 833 raises into the except clause of line 851; a call made
\* by extract_metadata is handled inside extract_metadata.
TaskCreated(t) ==
    /\ lk.at[t] \in {"w_creating", "w_recreating"}
    /\ \E o \in {"ok", "raised"} :
        lk' = [lk EXCEPT
                 !.holder = Release(@, "_driver_creation_lock"),
                 !.at[t] = IF lk.at[t] = "w_creating" /\ o = "raised"
                           THEN "w_except" ELSE "w_extract"]
    /\ LocksOnly

\* Line 836: extract_metadata with the thread's driver; it may call
\* _create_driver for a replacement, and it returns a Record.
TaskExtract(t) ==
    /\ lk.at[t] = "w_extract"
    /\ \E again \in BOOLEAN :
        /\ again => lk.recreated[t] < LockRecreations
        /\ lk' = [lk EXCEPT
                    !.at[t] = IF again THEN "w_regate" ELSE "w_count",
                    !.recreated[t] = IF again THEN @ + 1 ELSE @]
    /\ LocksOnly

\* Lines 839-841 and 853-855: the count under _progress_lock.
TaskCounted(t) ==
    /\ lk.at[t] = "w_counting"
    /\ lk' = [lk EXCEPT !.processed_count = @ + 1,
                        !.holder = Release(@, "_progress_lock"),
                        !.at[t] = "w_finally"]
    /\ LocksOnly

\* Lines 873-886: the driver is closed and the task returns its Record: the
\* future is done.
TaskReturn(t) ==
    /\ lk.at[t] = "w_finally"
    /\ lk' = [lk EXCEPT !.ready = @ + 1, !.at[t] = "idle"]
    /\ LocksOnly

\* Lines 950-954: as_completed yields a future that is done.
PoolYield ==
    /\ lk.at[Main] = "c_loop"
    /\ lk.yielded < LockUrls
    /\ lk.ready > 0
    /\ lk' = [lk EXCEPT !.ready = @ - 1, !.yielded = @ + 1,
                        !.at[Main] = "c_progress"]
    /\ LocksOnly

\* Lines 959-964 and 991-992: the count under _progress_lock; should_save
\* is decided inside the lock and acted upon outside it.
PoolCounted ==
    /\ lk.at[Main] \in {"c_counting", "c_recounting"}
    /\ LET completed == lk.completed_count + 1
           should_save == /\ lk.at[Main] = "c_counting"
                          /\ completed % CheckpointInterval = 0
                          /\ lk.output_file
       IN  lk' = [lk EXCEPT
                    !.completed_count = completed,
                    !.holder = Release(@, "_progress_lock"),
                    !.at[Main] = IF should_save THEN "c_save_lock"
                                 ELSE "c_loop"]
    /\ LocksOnly

\* save_results is entered from one of its call sites.
LkSaveCall ==
    /\ lk.at[Main] \in SaveSites
    /\ lk' = [lk EXCEPT !.writes = @ + 1, !.site = lk.at[Main],
                        !.at[Main] = "save_results"]
    /\ LocksOnly

\* save_results returns or raises.  Line 968: the with statement of the
\* milestone save is left; an exception goes to the except clause of line
\* 974.  Lines 1006-1010: an exception leaves the loop through the finally
\* clause.  Lines 1017-1018: the two final saves.
LkSaveReturn ==
    /\ lk.at[Main] = "save_results"
    /\ \E o \in {"ok", "failed"} :
        lk' = [lk EXCEPT
                 !.writes = SaveEnded(@),
                 !.holder = IF lk.site = "c_save"
                            THEN Release(@, "_file_save_lock") ELSE @,
                 !.raising = o = "failed" /\ lk.site # "c_save",
                 !.at[Main] =
                     CASE lk.site = "c_save" ->
                              IF o = "ok" THEN "c_loop" ELSE "c_except"
                       [] lk.site = "s_save" ->
                              IF o = "ok" THEN "s_loop" ELSE "s_finally"
                       [] lk.site = "final1" ->
                              IF o = "ok" THEN "final2" ELSE "raised"
                       [] OTHER ->
                              IF o = "ok" THEN "returned" ELSE "raised"]
    /\ LocksOnly

\* Line 940: the executor's with statement ends when every task has ended;
\* the sequential loop of line 998 follows.
PoolExit ==
    /\ lk.at[Main] = "c_loop"
    /\ lk.yielded = LockUrls
    /\ \A t \in 1..LockThreads : lk.at[t] = "idle"
    /\ lk' = [lk EXCEPT !.at[Main] = "s_loop", !.i = 0]
    /\ LocksOnly

\* Lines 998-1007: one round of the sequential loop; extract_metadata without
\* a driver takes no lock, and may raise.
SeqStep ==
    /\ lk.at[Main] = "s_loop"
    /\ IF lk.i < LockUrls
       THEN \E o \in {"returned", "raised"} :
            lk' = [lk EXCEPT
                     !.i = IF o = "returned" THEN @ + 1 ELSE @,
                     !.raising = o = "raised",
                     !.at[Main] =
                         CASE o = "raised" -> "s_finally"
                           [] (lk.i + 1) % CheckpointInterval = 0
                                  /\ lk.output_file -> "s_save"
                           [] OTHER -> "s_loop"]
       ELSE lk' = [lk EXCEPT !.at[Main] = "s_finally"]
    /\ LocksOnly

\* Lines 1008-1016: the finally clause, then the final saves when an output
\* path is given.
SeqFinally ==
    /\ lk.at[Main] = "s_finally"
    /\ lk' = [lk EXCEPT !.at[Main] = CASE lk.raising -> "raised"
                                      [] lk.output_file -> "final1"
                                      [] OTHER -> "returned"]
    /\ LocksOnly

NextLocks ==
    \/ \E t \in 1..LockThreads : TaskStart(t)
    \/ \E t \in 0..LockThreads : LkAcquire(t)
    \/ \E t \in 1..LockThreads : TaskCreated(t)
    \/ \E t \in 1..LockThreads : TaskExtract(t)
    \/ \E t \in 1..LockThreads : TaskCounted(t)
    \/ \E t \in 1..LockThreads : TaskReturn(t)
    \/ PoolYield
    \/ PoolCounted
    \/ LkSaveCall
    \/ LkSaveReturn
    \/ PoolExit
    \/ SeqStep
    \/ SeqFinally

SpecLocks == InitLocks /\ [][NextLocks]_vars /\ WF_vars(NextLocks)

\* ------------------------------------------- the probes of _create_driver
\* One call of _create_driver taken step by step.  frame.made lists the
\* handles uc.Chrome has returned during the call: probes counts the
\* _is_driver_alive calls on the handle, answered tells whether the last of
\* them succeeded, closed whether quit() was called on it.  Whether Chrome
\* starts and whether a session answers is the environment's choice.
MaxVerifyAttempts == 3

FrameOnly ==
    UNCHANGED <<cfg, crawl, lk, disk, sv, torn, part, tiers, tags, parse>>

\* Lines 157-160 and 170-175: driver.quit() inside try/except.
QuitSkipped(made, h) == made
QuitHandle(made, h) ==
    IF h = NoHandle THEN made ELSE [made EXCEPT ![h].closed = TRUE]

InitProbe ==
    /\ Parked("unit", NoFile, <<>>, 1)
    /\ broken = {}
    /\ disk = [p \in {} |-> <<>>]
    /\ sv = Idle
    /\ torn = {}
    /\ part = Idle
    /\ tiers = Idle
    /\ tags = Idle
    /\ parse = Idle
    /\ lk = Idle
    /\ frame = [stage |-> "attempt", attempt |-> 0, verify_attempt |-> 0,
                driver |-> NoHandle, made |-> <<>>, exc |-> NoError,
                last_error |-> NoError, result |-> NoHandle]

\* Lines 119-139: the head of one attempt: uc.Chrome returns a handle or
\* raises.
ProbeNew ==
    /\ frame.stage = "attempt"
    /\ frame.attempt < CreateMaxRetries
    /\ \E o \in {"ok", MsgMissing, MsgNotReachable} :
        IF o = "ok"
        THEN frame' = [frame EXCEPT
                         !.made = Append(@, [probes |-> 0, answered |-> FALSE,
                                             closed |-> FALSE]),
                         !.driver = Len(frame.made) + 1,
                         !.verify_attempt = 0,
                         !.stage = "verify"]
        ELSE frame' = [frame EXCEPT !.exc = o, !.stage = "except"]
    /\ FrameOnly

\* Lines 141-163: one round of the verify loop: _is_driver_alive, then the
\* second read of current_url.
ProbeVerify ==
    /\ frame.stage = "verify"
    /\ \E alive \in BOOLEAN, responsive \in BOOLEAN :
        LET h == frame.driver
            last == frame.verify_attempt = MaxVerifyAttempts - 1
            probed == [frame.made EXCEPT ![h].probes = @ + 1,
                                         ![h].answered = alive]
        IN  /\ ~alive => ~responsive
            /\ frame' =
                 IF alive /\ responsive
                 THEN [frame EXCEPT !.made = probed, !.result = h,
                                    !.stage = "returned"]
                 ELSE IF ~last
                 THEN [frame EXCEPT !.made = probed, !.verify_attempt = @ + 1]
                 ELSE IF alive
                 THEN [frame EXCEPT
                         !.made = probed,
                         !.exc = "Driver created but not responsive",
                         !.stage = "except"]
                 ELSE [frame EXCEPT
                         !.made = QuitHandle(probed, h),
                         !.exc = MsgNotReachable,
                         !.stage = "except"]
    /\ FrameOnly

\* Lines 164-199: the except clause closes the handle of the attempt, then
\* waits and continues, falls through to the next attempt, or raises on the
\* last attempt.
ProbeExcept ==
    /\ frame.stage = "except"
    /\ frame' = [frame EXCEPT
                   !.last_error = frame.exc,
                   !.exc = NoError,
                   !.made = QuitHandle(@, frame.driver),
                   !.driver = NoHandle,
                   !.attempt = IF CreateRaises(frame.exc, frame.attempt)
                               THEN @ ELSE @ + 1,
                   !.stage = IF CreateRaises(frame.exc, frame.attempt)
                             THEN "raised" ELSE "attempt"]
    /\ FrameOnly

NextProbe ==
    \/ ProbeNew
    \/ ProbeVerify
    \/ ProbeExcept

SpecProbe == InitProbe /\ [][NextProbe]_vars

\* ---------------------------------- the session operations of one extraction
\* extract_metadata from the page load to the last lookup, seen from the
\* session: every _is_driver_alive call and every operation on the driver
\* (get, execute_script, find_element(s), page_source), in the order of the
\* code.  The page decides what each source yields: whether the URL names
\* the user, whether a selector finds the description, and which counts the
\* page source leaves missing.  The session may die before any step.
\* frame.checked tells whether _is_driver_alive was called since the last
\* operation; frame.unchecked collects the lines of the operations made
\* without such a call.
DescriptionSelectors == 7
CollectSelectors == 7

VisibleFields == <<"like_count", "comment_count", "share_count", "view_count">>
VisibleLine ==
    [like_count |-> 694, comment_count |-> 710, share_count |-> 725,
     view_count |-> 740]

\* _is_driver_alive(driver), lines 78-87.
Check(f) == [f EXCEPT !.checked = TRUE]

\* An operation on the driver made at the given line.
Use(f, line) ==
    [f EXCEPT !.unchecked = IF f.checked THEN @ ELSE @ \cup {line},
              !.checked = FALSE,
              !.ops = @ + 1]

InitOps ==
    /\ Parked("unit", NoFile, <<>>, 1)
    /\ broken = {}
    /\ disk = [p \in {} |-> <<>>]
    /\ sv = Idle
    /\ torn = {}
    /\ part = Idle
    /\ tiers = Idle
    /\ tags = Idle
    /\ parse = Idle
    /\ lk = Idle
    /\ \E url_names_user \in BOOLEAN, dom_description \in 0..DescriptionSelectors,
          missing \in SUBSET ({"archive_count"} \cup
                                  {VisibleFields[i] : i \in 1..4}) :
        frame = [stage |-> "load", alive |-> TRUE, checked |-> FALSE,
                 unchecked |-> {}, ops |-> 0, i |-> 1,
                 url_names_user |-> url_names_user,
                 dom_description |-> dom_description,
                 missing |-> missing, error |-> NoError]

Dies == IF frame.alive THEN BOOLEAN ELSE {FALSE}
After(dies) == [frame EXCEPT !.alive = @ /\ ~dies]

\* Lines 273-300: the liveness check, driver.get, the check after the load.
OpsLoad ==
    /\ frame.stage = "load"
    /\ \E dies \in Dies :
        LET f == Check(Use(Check(frame), 295))
        IN  frame' = IF dies
                     THEN [f EXCEPT !.alive = FALSE, !.stage = "error",
                                    !.error = MsgDiedAfterLoad]
                     ELSE [f EXCEPT !.stage = "js"]
    /\ FrameOnly

\* Lines 365-373 and 477-482: the two checks, execute_script, then the name
\* from the URL.
OpsJs ==
    /\ frame.stage = "js"
    /\ \E dies \in Dies :
        LET f == After(dies)
        IN  frame' =
              IF ~f.alive
              THEN [Check(f) EXCEPT !.stage = "error",
                                    !.error = MsgDiedDuringLoad]
              ELSE [Use(Check(Check(f)), 373) EXCEPT
                      !.i = 1,
                      !.stage = IF f.url_names_user THEN "description"
                                ELSE "username"]
    /\ FrameOnly

\* Lines 491-514 and 532-551: one round of a selector loop: the check, then
\* the lookup; a dead session ends the loop.
OpsSelector ==
    /\ frame.stage \in {"username", "description"}
    /\ \E dies \in Dies, found \in BOOLEAN :
        LET f == After(dies)
            user == frame.stage = "username"
            last == frame.i = IF user THEN UsernameSelectors
                              ELSE DescriptionSelectors
            next == IF user THEN "description"
                    ELSE IF f.dom_description = 0 \/ ~f.alive THEN "fallback"
                    ELSE "source"
        IN  /\ ~user => found = (frame.i = f.dom_description)
            /\ frame' =
                 IF ~f.alive
                 THEN [Check(f) EXCEPT !.stage = next, !.i = 1]
                 ELSE LET g == Use(Check(f), IF user THEN 495 ELSE 537)
                      IN  IF found \/ last
                          THEN [g EXCEPT !.stage = next, !.i = 1]
                          ELSE [g EXCEPT !.i = @ + 1]
    /\ FrameOnly

\* Lines 555-557 and 569-571: the check, then driver.page_source; a dead
\* session raises into the warning of lines 564 and 793.
OpsSource ==
    /\ frame.stage \in {"fallback", "source"}
    /\ \E dies \in Dies :
        LET f == After(dies)
            fallback == frame.stage = "fallback"
        IN  frame' =
              IF ~f.alive
              THEN [Check(f) EXCEPT !.stage = IF fallback THEN "source"
                                              ELSE "done"]
              ELSE [Use(Check(f), IF fallback THEN 557 ELSE 571) EXCEPT
                      !.i = 1,
                      !.stage = IF fallback THEN "source" ELSE "visible"]
    /\ FrameOnly

\* Lines 691-750: the four passes over the visible elements: find_elements
\* when the count is still missing; an exception is passed over.
OpsVisible ==
    /\ frame.stage = "visible"
    /\ \E dies \in Dies :
        LET f == After(dies)
            field == VisibleFields[frame.i]
            g == IF field \in f.missing THEN Use(f, VisibleLine[field]) ELSE f
        IN  frame' =
              IF frame.i < Len(VisibleFields)
              THEN [g EXCEPT !.i = @ + 1]
              ELSE [g EXCEPT !.i = 1,
                             !.stage = IF "archive_count" \in f.missing
                                       THEN "collect" ELSE "done"]
    /\ FrameOnly

\* Lines 766-789: one round of the loop over the collect selectors.
OpsCollect ==
    /\ frame.stage = "collect"
    /\ \E dies \in Dies, found \in BOOLEAN :
        LET f == After(dies)
            g == Use(f, 768)
        IN  /\ found => f.alive
            /\ frame' = IF found \/ frame.i = CollectSelectors
                        THEN [g EXCEPT !.stage = "done"]
                        ELSE [g EXCEPT !.i = @ + 1]
    /\ FrameOnly

NextOps ==
    \/ OpsLoad
    \/ OpsJs
    \/ OpsSelector
    \/ OpsSource
    \/ OpsVisible
    \/ OpsCollect

SpecOps == InitOps /\ [][NextOps]_vars

\* ------------------------------------------------- the teardown of a session
\* The four places that close a session: the finally clause of a pool task
\* (_process_single_video), of a chunk thread (_process_chunk_in_thread), of
\* extract_from_links and of finalize_and_retry_errors.  The driver variable
\* holds no handle, a live session or a dead one; an exception may be on its
\* way through the finally clause of extract_from_links, or may have been
\* caught by the except clause of a worker before its finally clause; quit()
\* and close() succeed or raise, as the environment decides.
TeardownSites ==
    {"_process_single_video", "_process_chunk_in_thread",
     "extract_from_links", "finalize_and_retry_errors"}

\* Lines 875-884 and 1295-1302 wrap quit() in try/except with close() as the
\* fallback; lines 1009-1010 and 1185-1186 call quit() bare.
Guarded(site) == site \in {"_process_single_video", "_process_chunk_in_thread"}

InitTeardown ==
    /\ Parked("unit", NoFile, <<>>, 1)
    /\ broken = {}
    /\ disk = [p \in {} |-> <<>>]
    /\ sv = Idle
    /\ torn = {}
    /\ part = Idle
    /\ tiers = Idle
    /\ tags = Idle
    /\ parse = Idle
    /\ lk = Idle
    /\ \E site \in TeardownSites, driver \in {"none", "alive", "dead"},
          pending \in BOOLEAN, caught \in BOOLEAN, out \in BOOLEAN :
        /\ pending => site = "extract_from_links"
        /\ caught => Guarded(site)
        /\ site = "finalize_and_retry_errors" => out /\ driver # "none"
        /\ site = "_process_chunk_in_thread" => ~out
        /\ site = "_process_single_video" => ~out
        /\ frame = [stage |-> "finally", site |-> site, driver |-> driver,
                    pending |-> pending, caught |-> caught,
                    output_file |-> out,
                    quit |-> "none", close |-> "none", saves |-> 0]

\* The finally clause: if driver: driver.quit().
TearQuit ==
    /\ frame.stage = "finally"
    /\ IF frame.driver = "none"
       THEN frame' = [frame EXCEPT !.stage = "after"]
       ELSE \E o \in {"ok", "raised"} :
            frame' = [frame EXCEPT
                        !.quit = o,
                        !.stage = CASE o = "ok" -> "after"
                                    [] Guarded(frame.site) -> "close"
                                    [] OTHER -> "raised"]
    /\ FrameOnly

\* Lines 879-884 and 1298-1302: except: try: driver.close() except: pass.
TearClose ==
    /\ frame.stage = "close"
    /\ \E o \in {"ok", "raised"} :
        frame' = [frame EXCEPT !.close = o, !.stage = "after"]
    /\ FrameOnly

\* What follows the finally clause: a pending exception goes on to the
\* caller; extract_from_links saves twice when a path is given (lines
\* 1015-1018), finalize_and_retry_errors saves once (lines 1200-1204), a
\* worker returns.
TearAfter ==
    /\ frame.stage \in {"after", "save"}
    /\ LET saves == CASE frame.site = "extract_from_links"
                             /\ frame.output_file -> 2
                      [] frame.site = "finalize_and_retry_errors" -> 1
                      [] OTHER -> 0
       IN  frame' =
             IF frame.pending THEN [frame EXCEPT !.stage = "raised"]
             ELSE IF frame.saves < saves
             THEN [frame EXCEPT !.saves = @ + 1, !.stage = "save"]
             ELSE [frame EXCEPT !.stage = "returned"]
    /\ FrameOnly

NextTeardown ==
    \/ TearQuit
    \/ TearClose
    \/ TearAfter

SpecTeardown == InitTeardown /\ [][NextTeardown]_vars

\* ----------------------------------------------- save_results called twice
\* A value of a Record's field as Python holds it: its type, a number (an int,
\* or the tenths of a float) and a text.
Val(type, num, text) == [type |-> type, num |-> num, text |-> text]
NoneVal == Val("NoneType", 0, <<>>)
IntVal(n) == Val("int", n, <<>>)

\* int(float): towards zero
Trunc(tenths) ==
    IF tenths >= 0 THEN tenths \div 10 ELSE 0 - ((0 - tenths) \div 10)

RECURSIVE DigitsValue(_)
DigitsValue(text) ==
    IF text = <<>> THEN 0
    ELSE 10 * DigitsValue(SubSeq(text, 1, Len(text) - 1))
         + (Ord(text[Len(text)]) - 4)

\* int(str): blanks off both ends, a sign, then digits only; anything else
\* is a ValueError
StrInt(text) ==
    LET s == Strip(text)
        signed == s # <<>> /\ s[1] = "-"
        body == IF signed THEN Tail(s) ELSE s
    IN  IF body # <<>> /\ \A i \in 1..Len(body) : body[i] \in Digits
        THEN IntVal(IF signed THEN 0 - DigitsValue(body) ELSE DigitsValue(body))
        ELSE Val("ValueError", 0, <<>>)

\* int(x) as line 1036 calls it
IntCall(x) ==
    CASE x.type = "int" -> x
      [] x.type = "bool" -> IntVal(x.num)
      [] x.type = "float" -> IntVal(Trunc(x.num))
      [] x.type = "nan" -> Val("ValueError", 0, <<>>)
      [] x.type = "inf" -> Val("OverflowError", 0, <<>>)
      [] x.type = "str" -> StrInt(x.text)
      [] OTHER -> Val("TypeError", 0, <<>>)

\* Lines 1034-1038: the archive count of a video after the try/except
ArchiveCount(x) ==
    IF x.type = "NoneType" THEN x
    ELSE IF IntCall(x).type \in {"ValueError", "TypeError"} THEN NoneVal
    ELSE IntCall(x)

\* Lines 1039-1054: the hashtags of a video.  A list holds items, each a str
\* or not; the items that are no str are passed over.
StrItems(items) == SelectSeq(items, LAMBDA it : it.type = "str")
TextsIn(items) == [i \in 1..Len(items) |-> items[i].text]
ItemsOf(texts) == [i \in 1..Len(texts) |-> Val("str", 0, texts[i])]
Hashtags(h) ==
    IF h.type = "list"
    THEN [type |-> "list", items |-> ItemsOf(Cleaned(TextsIn(StrItems(h.items)), {}))]
    ELSE [type |-> "list", items |-> <<>>]

\* Lines 1031-1054: the loop over metadata, in place; what is no dict is
\* passed over; an OverflowError of int() leaves the call.
Raises(metadata) ==
    \E i \in 1..Len(metadata) :
        /\ metadata[i].dict
        /\ metadata[i].archive_count.type # "NoneType"
        /\ IntCall(metadata[i].archive_count).type = "OverflowError"
Normalised(metadata) ==
    [i \in 1..Len(metadata) |->
        IF metadata[i].dict
        THEN [metadata[i] EXCEPT !.archive_count = ArchiveCount(@),
                                 !.hashtags = Hashtags(@)]
        ELSE metadata[i]]

\* Lines 1056-1060: the document
Result(metadata, now) ==
    [total_videos |-> Len(metadata), extracted_at |-> now, videos |-> metadata]

ArchiveValues ==
    {NoneVal, IntVal(0), IntVal(5), IntVal(0 - 3), Val("bool", 1, <<>>),
     Val("float", 37, <<>>), Val("float", 0 - 37, <<>>), Val("nan", 0, <<>>),
     Val("inf", 0, <<>>), Val("str", 0, <<"1", "2">>),
     Val("str", 0, <<" ", "7">>), Val("str", 0, <<"-", "3">>),
     Val("str", 0, <<"3", ".", "7">>), Val("str", 0, <<>>),
     Val("list", 0, <<>>)}
TagItems ==
    {Val("int", 7, <<>>), Val("str", 0, <<>>), Val("str", 0, <<"#">>),
     Val("str", 0, <<"a">>), Val("str", 0, <<"A">>),
     Val("str", 0, <<"#", "a">>), Val("str", 0, <<"#", "#", "A">>),
     Val("str", 0, <<"a", "#">>)}
MaxTags == 2
HashtagValues ==
    {[type |-> "NoneType", items |-> <<>>], [type |-> "str", items |-> <<>>]}
    \cup {[type |-> "list", items |-> its] :
            its \in UNION {[1..n -> TagItems] : n \in 0..MaxTags}}
NotADict ==
    [dict |-> FALSE, archive_count |-> NoneVal,
     hashtags |-> [type |-> "NoneType", items |-> <<>>]]

InitResave ==
    /\ Parked("unit", NoFile, <<>>, 1)
    /\ broken = {}
    /\ disk = [p \in {} |-> <<>>]
    /\ sv = Idle
    /\ torn = {}
    /\ part = Idle
    /\ tiers = Idle
    /\ tags = Idle
    /\ parse = Idle
    /\ lk = Idle
    /\ \E a \in ArchiveValues, h \in HashtagValues, more \in BOOLEAN :
        LET video == [dict |-> TRUE, archive_count |-> a, hashtags |-> h]
        IN  frame = [stage |-> "line1017",
                     all_metadata |-> IF more THEN <<video, NotADict>>
                                      ELSE <<video>>,
                     given |-> IF more THEN <<video, NotADict>> ELSE <<video>>,
                     file |-> <<>>, now |-> 0,
                     after_first |-> <<>>, file_after_first |-> <<>>,
                     wrote |-> <<>>]

\* One save_results(all_metadata, output_file) of lines 1017-1018: the
\* Records are normalised in place, then the document is written under the
\* time of the call, or the write fails and the file stays as it was.
ResaveCall ==
    /\ frame.stage \in {"line1017", "line1018"}
    /\ IF Raises(frame.all_metadata)
       THEN frame' = [frame EXCEPT !.stage = "raised"]
       ELSE \E ok \in BOOLEAN, tick \in 0..1 :
            LET metadata == Normalised(frame.all_metadata)
                now == frame.now + tick
                file == IF ok THEN <<Result(metadata, now)>> ELSE frame.file
                first == frame.stage = "line1017"
            IN  frame' = [frame EXCEPT
                    !.stage = IF first THEN "line1018" ELSE "returned",
                    !.all_metadata = metadata,
                    !.now = now,
                    !.file = file,
                    !.wrote = Append(@, ok),
                    !.after_first = IF first THEN metadata ELSE @,
                    !.file_after_first = IF first THEN file ELSE @]
    /\ FrameOnly

NextResave == ResaveCall

SpecResave == InitResave /\ [][NextResave]_vars

\* --------------------------------------------------------------- properties
\* C1: when a run of the Pool Coordinator has returned, the Result Document
\* holds exactly one Record per input URL and Record i carries urls[i],
\* whatever the order in which the Workers completed.  Stated for the runs in
\* which nothing fails, where no Worker's failure can account for a
\* difference.
C1_OneRecordPerUrlInOrder ==
    pc[Main] = "c_returned" /\ faults = 0 => Urls(all_metadata) = video_links

\* C2: when the run has returned, every URL assigned to a Worker that failed
\* (its session creation raised, or an exception escaped it) is in the Result
\* Document as a Record with error set.
C2_FailedWorkerUrlsRecorded ==
    pc[Main] = "c_returned" =>
        \A t \in Workers : loc[t].failed =>
            \A i \in DOMAIN Assigned(t) :
                \E j \in DOMAIN all_metadata :
                    /\ all_metadata[j].url = Assigned(t)[i]
                    /\ HasError(all_metadata[j])

\* C3: every Record, wherever it stands (the one extract_metadata is building
\* or has returned, a future's result, a slot of the result list, a saved
\* document, the Finalizer's list), has null like, comment, share, view and
\* archive counts when its error is non-null.
C3_ErroredRecordHasNoCounts ==
    LET ok(r) == HasError(r) => \A f \in CountFields : r[f] = None
    IN  /\ \A t \in DOMAIN pc : ok(loc[t].md)
        /\ \A i \in DOMAIN all_metadata : ok(all_metadata[i])
        /\ \A i \in DOMAIN future : ok(future[i])
        /\ \A p \in DOMAIN disk :
               \A i \in DOMAIN disk[p].videos : ok(disk[p].videos[i])
        /\ \A i \in DOMAIN fin.videos : ok(fin.videos[i])

\* C4: a Record returned by extract_metadata has error set whenever the
\* session died or an operation failed at script evaluation, description
\* extraction or metric extraction, and has error null when nothing went
\* wrong during the call.
C4_ErrorIffNotClean ==
    \A t \in DOMAIN pc : pc[t] = "em_return" =>
        /\ loc[t].warned => HasError(loc[t].md)
        /\ ~loc[t].trouble /\ ~loc[t].deadAtStart => ~HasError(loc[t].md)

\* C5: every operation on a Session Handle is performed by the one thread
\* that created it: no handle has been used by two threads.
C5_HandleUsedByOwnerOnly ==
    \A h \in DOMAIN handles : handles[h].users \subseteq {handles[h].owner}

\* C5 witness: two Workers hold an open handle each, one of them inside
\* extract_metadata after the page load.
C5_TwoWorkersAtWork ==
    \E t1, t2 \in Workers :
        /\ t1 # t2
        /\ pc[t1] = "em_js"
        /\ loc[t2].wdriver # NoHandle
        /\ Answers(handles, loc[t1].wdriver)
        /\ Answers(handles, loc[t2].wdriver)

\* C6: at no time are two threads inside the gated body of _create_driver.
C6_OneThreadInGate ==
    Cardinality({t \in DOMAIN pc : pc[t] = "cd_body"}) <= 1

\* C7: when a page load failed with a recoverable session error and a later
\* attempt of the same call loaded the page, the returned Record has error
\* null.
C7_RecoveredAttemptReturned ==
    \A t \in DOMAIN pc :
        pc[t] = "em_return" /\ loc[t].recovered => ~HasError(loc[t].md)

\* C8: a Worker whose handle does not answer when it starts a URL, and whose
\* replacement from _create_driver works, returns a Record with error null
\* for that URL; and no Worker passes an entry of its URL list to
\* extract_metadata twice: the calls it has made are a prefix of that list.
C8_ReplacementCompletesUrl ==
    \A t \in Workers :
        /\ pc[t] = "em_return" /\ loc[t].deadAtStart /\ ~loc[t].trouble
               => ~HasError(loc[t].md)
        /\ Len(extracted[t]) <= Len(Assigned(t))
        /\ extracted[t] = SubSeq(Assigned(t), 1, Len(extracted[t]))

\* C8 witness: a Worker returns from its second URL, which it started on a
\* dead handle and finished on a replacement that worked.
C8_SecondUrlOnReplacement ==
    \E t \in Workers :
        /\ pc[t] = "em_return"
        /\ loc[t].deadAtStart /\ ~loc[t].trouble
        /\ Len(extracted[t]) = 2
        /\ \E h \in DOMAIN handles :
               h # loc[t].wdriver /\ handles[h].owner = t /\ handles[h].alive

\* C9: when a Worker has finished, every Session Handle it created, at its
\* start or as a replacement, has been closed.
C9_HandlesClosedAtFinish ==
    \A h \in DOMAIN handles :
        handles[h].owner \in Workers /\ pc[handles[h].owner] = "done"
            => handles[h].quit

\* C10: when an output path is given, after k URLs have completed at least
\* floor(k / 10) partial Checkpoint writes have been started.
C10_CheckpointEveryInterval ==
    output_file # NoFile =>
        partial_writes >=
            Len(Completed(all_metadata)) \div CheckpointInterval

\* C11: a partial Checkpoint holds Records of completed URLs only, in input
\* order, and each of its Records is the Record at its URL's position in the
\* result list, and in the final Result Document once extract_from_links has
\* saved it and returned: no Record changes after a Checkpoint took it.
C11_CheckpointIsViewOfResult ==
    LET p == PartialPath(output_file)
    IN  output_file # NoFile /\ p \in DOMAIN disk =>
        LET ck == disk[p].videos
            pos(j) == CHOOSE i \in DOMAIN video_links :
                          video_links[i] = ck[j].url
        IN  /\ \A j \in DOMAIN ck : ck[j] # NoRecord
            /\ \A j \in 1..(Len(ck) - 1) : pos(j) < pos(j + 1)
            /\ \A j \in DOMAIN ck :
                   /\ pos(j) \in DOMAIN all_metadata
                   /\ all_metadata[pos(j)] = ck[j]
            /\ pc[Main] = "c_returned" =>
                   \A j \in DOMAIN ck :
                       disk[output_file].videos[pos(j)] = ck[j]

\* C12: at every point of a save_results call, a crash between the write of
\* the temporary file and the rename included, the target path is never a
\* partly written file: it holds what it held when the call was made (nothing
\* or the complete previous document) or the complete new document, and the
\* new document once the call has returned.
C12_TargetNeverPartlyWritten ==
    sv.stage # "idle" =>
        /\ sv.file_path \notin torn
        /\ Content(disk, sv.file_path) \in {sv.before, <<sv.result>>}
        /\ sv.stage = "returned" => Content(disk, sv.file_path) = <<sv.result>>

\* C12 witness: the process was killed after the temporary file was written
\* in full and before the rename, while the target held a previous document
\* different from the new one.
C12_CrashBeforeRename ==
    /\ sv.stage = "crashed"
    /\ sv.temp_file \in DOMAIN disk
    /\ sv.temp_file \notin torn
    /\ disk[sv.temp_file] = sv.result
    /\ sv.before # <<>>
    /\ sv.before # <<sv.result>>

\* C13: for every output path, a save_results call with partial=True writes
\* to a path different from the path of the final document.
C13_PartialPathIsNotFinalPath ==
    sv.stage # "idle" /\ sv.partial => sv.file_path # sv.output_file

\* C14: for every loaded document the Finalizer passes to extract_metadata
\* exactly the URLs of the Records whose error is non-empty (those that have
\* a URL), in their order, and writes the k-th new Record to the index of the
\* k-th such Record.
C14_RetriesErroredRecordsInPlace ==
    LET isErr(i) == HasError(fin.loaded[i]) /\ HasUrl(fin.loaded[i])
        errs == SelectSeq([i \in 1..Len(fin.loaded) |-> i], isErr)
    IN  /\ \A k \in DOMAIN fin.stored :
               k <= Len(errs) /\ fin.stored[k] = errs[k]
        /\ pc[Main] \in {"f_finally", "f_save"} =>
               /\ Len(fin.stored) = Len(errs)
               /\ extracted[Main] = [k \in 1..Len(errs) |-> fin.loaded[errs[k]].url]

\* C15: when the Finalizer has retried at least one URL and returned, the
\* document on disk carries successful_extractions = the number of its
\* Records without error and failed_extractions = the number with an error,
\* and the two add up to total_videos.
C15_SavedDocumentCarriesCounters ==
    pc[Main] = "done" /\ fin.result # <<>> /\ fin.result[1].retried >= 1 =>
        LET d == disk[output_file]
            good == Len(SelectSeq(d.videos, NoErr))
        IN  /\ {"successful_extractions", "failed_extractions"} \subseteq DOMAIN d
            /\ d.successful_extractions = good
            /\ d.failed_extractions = Len(d.videos) - good
            /\ d.successful_extractions + d.failed_extractions = d.total_videos

\* C16: when the document cannot be loaded (no file, or a file that is not
\* valid JSON), what finalize_and_retry_errors hands to its caller differs
\* from what it hands back for a document that loaded and held no errored
\* Record.
C16_LoadFailureSurfaced ==
    fin.load_failed => fin.result # <<NoErrorsFound>>

\* C17: with deterministic extraction, the second of two Finalizer runs in a
\* row on one path returns the still_failed count the first run returned,
\* whatever document the path held at the start.
C17_SecondRunSameStillFailed ==
    fin.run = 2 /\ fin.result # <<>> =>
        fin.result[1].still_failed = fin.first[1].still_failed

\* C18: for every URL list and every positive number of threads, the chunk
\* loop ends with num_threads contiguous chunks whose concatenation in order
\* is the list (every entry is in exactly one chunk), whose sizes differ by
\* at most 1 with the larger chunks first; chunk thread_id is the one the
\* thread of that id is given.
C18_ChunksPartitionTheList ==
    part.stage = "loop" /\ part.i = num_threads =>
        LET chunks == part.chunks
        IN  /\ Len(chunks) = num_threads
            /\ Concat(chunks) = video_links
            /\ \A a, b \in DOMAIN chunks :
                   a < b => Len(chunks[a]) - Len(chunks[b]) \in {0, 1}
            /\ \A t \in DOMAIN chunks :
                   chunks[t] = Chunk(video_links, num_threads, t)

\* C18 witness: the loop has split a list that does not divide evenly among
\* two or more threads.
C18_UnevenSplitDone ==
    /\ part.stage = "loop"
    /\ part.i = num_threads
    /\ num_threads > 1
    /\ Len(video_links) > num_threads
    /\ Len(video_links) % num_threads > 0

\* C19: for each field, once a pass has found a value no later pass replaces
\* or clears it: what the embedded data tier found is what the Record
\* returns, and the later tiers supply a field only while it is empty.
C19_EarlierTierWins ==
    /\ \A k \in 1..(Len(tiers.trail) - 1) :
           tiers.trail[k] # None => tiers.trail[k + 1] = tiers.trail[k]
    /\ tiers.stage = "done" /\ tiers.trail[1] # None =>
           tiers.value = tiers.trail[1]

C21_HashtagsNormalSorted ==
    tags.stage \in {"recorded", "saved"} =>
        /\ \A i \in 1..Len(tags.hashtags) :
               LET tag == tags.hashtags[i]
               IN  /\ tag # <<>>
                   /\ tag[1] # "#"
                   /\ \A k \in 1..Len(tag) : tag[k] \notin UpperCase
        /\ \A i, j \in 1..Len(tags.hashtags) :
               i < j => LexLess(tags.hashtags[i], tags.hashtags[j])
        /\ Range(tags.hashtags) = tags.hashtags_found
        /\ AddHashtags(tags.hashtags_found, tags.description) = tags.hashtags_found
        /\ (tags.desc_val = GreatDay /\ tags.title_val = <<>>) =>
               tags.hashtags = << <<"f", "u", "n">> >>
C21_GreatDayTagsSaved ==
    /\ tags.stage = "saved"
    /\ tags.desc_val = GreatDay
    /\ tags.title_val = <<"#", "A", "1">>
    /\ tags.hashtags = << <<"a", "1">>, <<"f", "u", "n">> >>

\* C22: parse_count gives, for a decimal number followed by K, M or B, that
\* number times 10^3, 10^6 or 10^9, for a plain number its integer value,
\* and None for a string that holds no number.
C22_ParseCountScalesExactly ==
    parse.stage = "done" =>
        LET s      == Strip(UpperText(parse.arg))
            last   == IF s = <<>> THEN " " ELSE s[Len(s)]
            places == IF last = "K" THEN 3 ELSE IF last = "M" THEN 6
                      ELSE IF last = "B" THEN 9 ELSE 0
            num    == IF places = 0 THEN s ELSE SubSeq(s, 1, Len(s) - 1)
            dot    == IF Contains(num, ".") THEN CHOOSE i \in 1..Len(num) : num[i] = "."
                      ELSE Len(num) + 1
            whole  == SubSeq(num, 1, dot - 1)
            frac   == SubSeq(num, dot + 1, Len(num))
            moved  == [i \in 1..places |-> IF i <= Len(frac) THEN frac[i] ELSE "0"]
            digits == LStripChar(whole \o moved, "0")
        IN  /\ (IsFloatText(num) /\ num = Strip(num) /\ whole # <<>>) =>
                   parse.result = IF digits = <<>> THEN <<"0">> ELSE digits
            /\ (\A i \in 1..Len(s) : s[i] \notin Digits) => parse.result = None

\* C23: when the video URL holds an '@' followed by an identifier, the
\* Record's username is that identifier (the text up to the next '/'),
\* whatever the embedded data and the page elements hold; the embedded
\* data or the page gives the final username only for a URL without one.
C23_UrlUsernameWins ==
    tiers.stage = "u_done" =>
        LET at == {i \in 1..Len(tiers.video_url) - 1 :
                       tiers.video_url[i] = "@" /\ tiers.video_url[i + 1] # "/"}
        IN  /\ at # {} =>
                LET first == CHOOSE i \in at : \A j \in at : i <= j
                    rest  == SubSeq(tiers.video_url, first + 1, Len(tiers.video_url))
                    stop  == {k \in 1..Len(rest) : rest[k] = "/"}
                    end   == IF stop = {} THEN Len(rest)
                             ELSE (CHOOSE k \in stop : \A j \in stop : k <= j) - 1
                IN  tiers.username = SubSeq(rest, 1, end)
            /\ (Truthy(tiers.username) /\ at = {}) =>
                   tiers.trail # <<>> /\ tiers.trail[Len(tiers.trail)] \in {"js", "page"}
            /\ (tiers.trail # <<>> /\ tiers.trail[Len(tiers.trail)] \in {"js", "page"})
                   => at = {}
C23_UrlOverEmbeddedName ==
    /\ tiers.stage = "u_done"
    /\ tiers.video_url = <<"/", "@", "u">>
    /\ tiers.page.uniqueId # <<>>
    /\ tiers.page.found[1] = <<HrefElem>>
    /\ tiers.trail = <<"js", "url">>
    /\ tiers.username = <<"u">>

\* C24: once a navigation of a call has loaded the page on a session that is
\* alive afterwards, the call navigates to that URL no more; a call during
\* which nothing failed has navigated exactly once when it returns.
C24_NoNavigationAfterSuccess ==
    \A t \in DOMAIN pc :
        /\ pc[t] = "em_get" => ~loc[t].loaded
        /\ (pc[t] = "em_return" /\ ~loc[t].trouble /\ ~HasError(loc[t].md))
               => loc[t].gets = 1

\* C25: a chunk Worker starts each URL on the handle it created last: once
\* extract_metadata has replaced a dead handle, the replacement is what the
\* Worker passes for its following URLs, so that the handles a Worker has
\* created are one more than the sessions it has lost.
C25_ReplacementKeptByWorker ==
    \A t \in Workers :
        LET mine == {h \in DOMAIN handles : handles[h].owner = t}
            lost == {h \in mine : ~handles[h].alive /\ ~handles[h].quit}
        IN  (mode = "chunked" /\ pc[t] = "em_check" /\ mine # {}) =>
                /\ \A h \in mine : h <= loc[t].driver
                /\ Cardinality(mine) <= 1 + Cardinality(lost)

\* C26: while the pool of extract_from_links runs, every result slot is
\* assigned once, with the Record its task returned, and counted once, also
\* when the Checkpoint write of a milestone raises.
C26_SlotAssignedOnce ==
    (mode = "threaded" /\ pc[Main] = "c_pool") =>
        /\ \A i \in loc[Main].consumed : all_metadata[i] = future[i]
        /\ \A i \in DOMAIN all_metadata \ loc[Main].consumed :
               all_metadata[i] = NoRecord
        /\ completed_count = Cardinality(loc[Main].consumed)

\* C27: _create_driver makes a further attempt only after an error its
\* keyword list classifies as recoverable: any other creation error leaves
\* the call at once.
C27_UnrecoverableCreationRaisesAtOnce ==
    \A t \in DOMAIN pc :
        (pc[t] = "cd_body" /\ loc[t].cdAttempt > 0)
            => IsRecoverableCreate(loc[t].exc)

\* C28: _create_driver makes at most max_retries attempts and then leaves,
\* with a handle or with the last error; the gate is held by a thread inside
\* the call only, so a thread that waits at the gate enters it in the end and
\* a thread inside the call leaves it in the end.
C28_GateBoundedAndReleased ==
    /\ [](\A t \in DOMAIN pc :
            /\ pc[t] = "cd_body" => loc[t].cdAttempt < CreateMaxRetries
            /\ pc[t] = "cd_body" => creationLock[Ext(t)] = t
            /\ \A e \in DOMAIN creationLock :
                   creationLock[e] = t => pc[t] = "cd_body")
    /\ \A t \in 1..GateUrls :
           /\ (pc[t] = "cd_lock") ~> (pc[t] = "cd_body")
           /\ (pc[t] = "cd_body") ~>
                  (pc[t] # "cd_body"
                      /\ (loc[t].cdResult # NoHandle \/ loc[t].exc # NoError))
C28_WaitsWhileOtherCreates ==
    /\ pc[1] = "cd_body"
    /\ loc[1].cdAttempt = CreateMaxRetries - 1
    /\ pc[2] = "cd_lock"

\* C29: an error of the page load that is not recoverable ends the attempts
\* of the call at once: the handler leaves the loop without another
\* navigation, and the call returns the Record whose error is the message of
\* that error and whose other fields are null.
C29_UnrecoverableLoadEndsCall ==
    [][\A t \in DOMAIN pc :
          /\ (/\ pc[t] = "em_handler"
              /\ loc[t].exc \in {MsgUnknown, MsgDiedAfterLoad}
              /\ pc'[t] # pc[t])
                 => /\ pc'[t] = "em_after"
                    /\ loc'[t].last_error = loc[t].exc
                    /\ loc'[t].gets = loc[t].gets
          /\ (/\ pc[t] = "em_after"
              /\ loc[t].last_error \in {MsgUnknown, MsgDiedAfterLoad}
              /\ pc'[t] # pc[t])
                 => /\ pc'[t] = "em_return"
                    /\ loc'[t].md = ErrorRecord(loc[t].url, loc[t].last_error)
                    /\ loc'[t].gets = loc[t].gets]_vars
C29_ReturnedOnFirstLoadError ==
    \E t \in DOMAIN pc :
        /\ pc[t] = "em_return"
        /\ loc[t].md = ErrorRecord(loc[t].url, MsgUnknown)
        /\ loc[t].gets = 1

C31_CleanRecordsUntouched ==
    LET same(videos) ==
            /\ Len(videos) = Len(fin.loaded)
            /\ Urls(videos) = Urls(fin.loaded)
            /\ \A i \in DOMAIN fin.loaded :
                   ~HasError(fin.loaded[i]) => videos[i] = fin.loaded[i]
    IN  /\ fin.loaded # <<>> => same(fin.videos)
        /\ pc[Main] = "done" /\ fin.result # <<>> /\ fin.loaded # <<>>
               => same(disk[output_file].videos)

\* C32: the counts finalize_and_retry_errors returns satisfy
\* retried = successful + still_failed, and retried is the number of loaded
\* Records that have a non-empty error and a URL.
C32_ReturnedCountsAddUp ==
    fin.result # <<>> =>
        LET r == fin.result[1]
            retriable(v) == HasError(v) /\ v.url # None
        IN  /\ r.retried = r.successful + r.still_failed
            /\ r.retried = Len(SelectSeq(fin.loaded, retriable))

\* C32 witness: a pass over a document with an errored Record without URL
\* and an errored Record with one has returned, and the retry had raised.
C32_ReturnedAfterRaisedRetry ==
    /\ fin.result # <<>>
    /\ fin.result[1].retried = 1
    /\ fin.result[1].still_failed = 1
    /\ \E i \in DOMAIN fin.loaded : fin.loaded[i].url = None
    /\ \E i \in DOMAIN fin.videos : fin.videos[i].error = MsgRetryFailed

\* C33: once a chunk thread has failed (its session creation raised), the
\* run reaches a state in which main has joined every thread and called
\* save_results, every other thread has passed all URLs of its chunk to
\* extract_metadata and appended a Record for each, and the document saved
\* holds these Records.
C33_OtherWorkersFinish ==
    (\E t \in Workers : loc[t].failed) ~>
        /\ pc[Main] # "m_join"
        /\ \A w \in Workers : ~loc[w].failed =>
               /\ pc[w] \in {"done", "idle"}
               /\ extracted[w] = Assigned(w)
               /\ \A i \in DOMAIN Assigned(w) :
                      \E j \in DOMAIN all_metadata :
                          all_metadata[j].url = Assigned(w)[i]
        /\ pc[Main] = "c_returned" => disk[output_file].videos = all_metadata

\* C33 witness: the second thread failed, the first has worked through its
\* chunk of two URLs, and the document saved holds its two Records.
C33_SavedAfterWorkerFailed ==
    /\ loc[2].failed
    /\ pc[Main] = "c_returned"
    /\ ~loc[1].failed
    /\ Len(Assigned(1)) = 2
    /\ Urls(disk[output_file].videos) = Assigned(1)

C35_OneWriteAtATime ==
    lk.stage = "run" =>
        /\ lk.writes <= 1
        /\ lk.writes = Cardinality({t \in DOMAIN lk.at :
                                       lk.at[t] = "save_results"})
        /\ \A t \in DOMAIN lk.at : lk.at[t] = "save_results" => t = Main

\* C35 witness: the milestone save is in progress while an executor thread
\* is still at work on a URL.
C35_SavingWhileTaskRuns ==
    /\ lk.stage = "run"
    /\ lk.writes = 1
    /\ lk.site = "c_save"
    /\ \E t \in 1..LockThreads : lk.at[t] \in {"w_creating", "w_counting"}

\* C40: no thread ever holds two of the locks _progress_lock,
\* _file_save_lock and _driver_creation_lock, the holder of a lock stands
\* inside the with statement of that lock (the lock is released when the
\* block is left, by any path), every task of the pool comes to its end, and
\* once every task has returned the run of extract_from_links comes to its
\* end with every lock free.
C40_LocksNeverNested ==
    /\ [](lk.stage = "run" =>
            /\ \A t \in DOMAIN lk.at :
                   Cardinality({l \in Locks : lk.holder[l] = t}) <= 1
            /\ \A l \in Locks : lk.holder[l] # None =>
                   \E w \in DOMAIN WantsLock :
                       /\ WantsLock[w] = l
                       /\ \/ lk.at[lk.holder[l]] = Inside[w]
                          \/ /\ lk.at[lk.holder[l]] = "save_results"
                             /\ lk.site = Inside[w])
    /\ lk.stage = "run"
       ~> (lk.queued = 0 /\ \A t \in 1..LockThreads : lk.at[t] = "idle")
    /\ (lk.stage = "run" /\ lk.queued = 0
            /\ \A t \in 1..LockThreads : lk.at[t] = "idle")
       ~> (lk.at[Main] \in {"returned", "raised"}
               /\ \A l \in Locks : lk.holder[l] = None)

\* C40 witness: the milestone save has raised, its with statement has given
\* _file_save_lock back, and the caller waits in front of _progress_lock,
\* which an executor thread holds.
C40_WaitsAfterFailedSave ==
    /\ lk.stage = "run"
    /\ lk.at[Main] = "c_except"
    /\ lk.holder["_file_save_lock"] = None
    /\ lk.holder["_progress_lock"] \in 1..LockThreads

\* C36: _create_driver returns a handle only when the last liveness probe of
\* that handle succeeded; no handle is probed more than 3 times; a handle
\* whose probes all failed is closed, and counted as one failed attempt,
\* before the next attempt creates another handle.
C36_ReturnsProbedHandle ==
    frame.stage \in {"attempt", "verify", "except", "returned", "raised"} =>
        LET made == frame.made
        IN  /\ frame.stage = "returned" =>
                /\ frame.result \in DOMAIN made
                /\ made[frame.result].answered
                /\ made[frame.result].probes >= 1
                /\ ~made[frame.result].closed
            /\ \A h \in DOMAIN made : made[h].probes <= 3
            /\ \A h \in DOMAIN made :
                   h # frame.driver => made[h].closed
            /\ \A h \in DOMAIN made :
                   made[h].probes = 3 /\ ~made[h].answered
                       /\ frame.stage # "verify"
                       => made[h].closed
            /\ Len(made) <= frame.attempt + 1
            /\ frame.stage = "attempt" => Len(made) <= frame.attempt

\* C36 witness: the first handle failed its three probes and was closed, and
\* the call returned the second handle after its second probe.
C36_SecondHandleReturned ==
    /\ frame.stage = "returned"
    /\ Len(frame.made) = 2
    /\ frame.made[1].probes = 3
    /\ frame.made[1].closed
    /\ frame.result = 2
    /\ frame.made[2].probes = 2

\* C37: in extract_metadata every operation on the session (driver.get,
\* execute_script, find_element(s), page_source) is made after a call of
\* _is_driver_alive that followed the operation before it.
C37_CheckedBeforeEveryUse ==
    frame.stage \in {"load", "js", "username", "description", "fallback",
                     "source", "visible", "collect", "done", "error"}
        => frame.unchecked = {}

\* C38: at each place that closes a session, a quit() that raises is caught
\* there (close() is tried and its error swallowed): the teardown raises
\* nothing of its own, and what follows it, the saves of the document
\* included, runs.
C38_TeardownNeverRaises ==
    frame.stage \in {"finally", "close", "after", "save", "returned",
                     "raised"} =>
        /\ frame.stage = "raised" => frame.pending
        /\ frame.quit = "raised" => frame.stage # "raised"
        /\ frame.stage = "returned" /\ frame.output_file =>
               frame.saves >= 1

\* C39: the second save_results call of lines 1017-1018 leaves the Records
\* as the first call left them, and when both writes succeed the document of
\* the second differs from the document of the first in its time only.
C39_SecondSaveChangesNothing ==
    frame.stage = "returned" /\ Len(frame.wrote) = 2 =>
        /\ frame.all_metadata = frame.after_first
        /\ frame.wrote[1] /\ frame.wrote[2] =>
               /\ frame.file[1].videos = frame.file_after_first[1].videos
               /\ frame.file[1].total_videos
                      = frame.file_after_first[1].total_videos
        /\ ~frame.wrote[2] => frame.file = frame.file_after_first

\* C39's case: the first call changed the Records (a tag lost its '#' signs
\* and its capitals, a float became an int), both calls wrote, and the
\* second call wrote at a later time.
C39_ResavedChangedRecords ==
    /\ frame.stage = "returned" /\ Len(frame.wrote) = 2
    /\ frame.wrote[1] /\ frame.wrote[2]
    /\ frame.after_first # frame.given
    /\ frame.given[1].archive_count.type = "float"
    /\ \E i \in 1..Len(frame.given[1].hashtags.items) :
           frame.given[1].hashtags.items[i].text = <<"#", "#", "A">>
    /\ frame.file[1].extracted_at # frame.file_after_first[1].extracted_at
=============================================================================
